---- MODULE Spec2Model ----
(***************************************************************************)
(* Advanced Accordion, frontend view script (src/src/view.js).             *)
(*                                                                         *)
(* The model follows the script: the attribute readers, the settings       *)
(* resolver, the AdvancedAccordion class (hydration, toggle, open, close,  *)
(* link-group synchronisation, keyboard, resize, destroy), the static      *)
(* registry, init() and the MutationObserver callback.  The browser is the *)
(* environment: it delivers clicks, key presses, animation frames,         *)
(* transition-end events, timers, resize notifications, DOM mutations and  *)
(* changes of the reduced-motion media query.                              *)
(*                                                                         *)
(* Numbers are thousandths (0.4 s is 400, 10 px is 10000); NaN is a value. *)
(***************************************************************************)
EXTENDS Integers, Sequences, FiniteSets, TLC

VARIABLES
    doc,        \* the static markup: containers, items and their data-* attributes
    rm,         \* prefersReducedMotion.matches
    attached,   \* container node -> it is attached to its parent position
    aaInit,     \* container node -> dataset.aaInit is set
    coord,      \* container node -> the Coordinators constructed for it, in order
    reg,        \* AdvancedAccordion._instances: container node -> index in coord, 0 = no entry
    clickL,     \* toggle -> click listeners attached to it, in order
    item,       \* item -> its DOM state (classes, ARIA, inline styles, listeners, timers)
    raf,        \* requestAnimationFrame callbacks registered for the next frame, in order
    nat,        \* item -> natural (unconstrained) height of its content panel, px
    mut,        \* MutationRecords queued for the observer's next callback, in order
    focus       \* the toggle that has the keyboard focus, 0 when none has

vars == <<doc, rm, attached, aaInit, coord, reg, clickL, item, raf, nat, mut, focus>>

(* ------------------------------------------------------------------ *)
(* Bounds of the model                                                *)
(* ------------------------------------------------------------------ *)

\* longest attribute string drawn for a numeric attribute
MaxLen == 3
\* tallest natural height of a content panel, px
MaxH == 2
\* most callbacks waiting for one animation frame
MaxRaf == 3
\* most transition-end listeners left on one content panel
MaxListeners == 1
\* most MutationRecords delivered to the observer in one callback
MaxBatch == 2

(* ------------------------------------------------------------------ *)
(* Numbers and strings                                                *)
(* ------------------------------------------------------------------ *)

Num(v) == [nan |-> FALSE, v |-> v]
NaN == [nan |-> TRUE, v |-> 0]

\* a > 0 as JavaScript evaluates it: false for NaN
Positive(n) == ~n.nan /\ n.v > 0

Digits == {"0", "1", "2", "3", "4", "5", "6", "7", "8", "9"}

DigitVal(ch) ==
    CASE ch = "0" -> 0 [] ch = "1" -> 1 [] ch = "2" -> 2 [] ch = "3" -> 3
      [] ch = "4" -> 4 [] ch = "5" -> 5 [] ch = "6" -> 6 [] ch = "7" -> 7
      [] ch = "8" -> 8 [] ch = "9" -> 9

\* an attribute: absent (getAttribute gives null) or a string, kept as its characters
Null == [p |-> FALSE, s |-> <<>>]
Attr(s) == [p |-> TRUE, s |-> s]

RECURSIVE SkipSpace(_)
SkipSpace(s) ==
    IF s # <<>> /\ Head(s) = " " THEN SkipSpace(Tail(s)) ELSE s

\* the longest prefix of s made of digits
RECURSIVE DigitRun(_)
DigitRun(s) ==
    IF s # <<>> /\ Head(s) \in Digits THEN <<Head(s)>> \o DigitRun(Tail(s)) ELSE <<>>

RECURSIVE IntVal(_, _)
IntVal(ds, acc) ==
    IF ds = <<>> THEN acc ELSE IntVal(Tail(ds), 10 * acc + DigitVal(Head(ds)))

\* the fraction digits ds as thousandths (digits after the third are dropped)
FracVal(ds) ==
    LET d(k) == IF Len(ds) >= k THEN DigitVal(ds[k]) ELSE 0
    IN  100 * d(1) + 10 * d(2) + d(3)

\* parseFloat: leading blanks, a sign, digits, a fraction; the rest is ignored;
\* NaN when no digit was read
parseFloat(str) ==
    LET s0 == SkipSpace(str)
        neg == s0 # <<>> /\ Head(s0) = "-"
        s1 == IF s0 # <<>> /\ Head(s0) \in {"-", "+"} THEN Tail(s0) ELSE s0
        ip == DigitRun(s1)
        s2 == SubSeq(s1, Len(ip) + 1, Len(s1))
        dot == s2 # <<>> /\ Head(s2) = "."
        fp == IF dot THEN DigitRun(Tail(s2)) ELSE <<>>
        mag == 1000 * IntVal(ip, 0) + FracVal(fp)
    IN  IF ip = <<>> /\ fp = <<>> THEN NaN
        ELSE Num(IF neg THEN 0 - mag ELSE mag)

(* ------------------------------------------------------------------ *)
(* Attribute readers                                                  *)
(* ------------------------------------------------------------------ *)

dataNum(raw, fallback) ==
    IF raw.p THEN parseFloat(raw.s) ELSE fallback

dataStr(raw, fallback) ==
    IF raw.p THEN raw.s ELSE fallback

\* a reader that takes every present value but "false" for true: C27 must fail
\* under it
dataBoolLoose(raw, fallback) ==
    IF ~raw.p THEN fallback ELSE raw.s # <<"false">>

dataBool(raw, fallback) ==
    IF ~raw.p THEN fallback ELSE raw.s = <<"true">>

(* ------------------------------------------------------------------ *)
(* The markup                                                         *)
(* ------------------------------------------------------------------ *)

\* attribute values the save components write
Yes == Attr(<<"true">>)
No == Attr(<<"false">>)
S04 == Attr(<<"0", ".", "4">>)
S0 == Attr(<<"0">>)
S03 == Attr(<<"0", ".", "3">>)
S10 == Attr(<<"1", "0">>)
Ease == Attr(<<"ease">>)
G == Attr(<<"g">>)

\* a container node as containerSave writes it; parent: the item whose content
\* panel holds it, 0 when it is not inside an accordion
MkCont(parent, autoClose, duration, contentFade) ==
    [parent |-> parent, autoClose |-> autoClose, allowMultiple |-> Yes,
     duration |-> duration, easing |-> Ease, contentFade |-> contentFade,
     fadeDuration |-> S03, slideDistance |-> S10, stagger |-> S0]

\* an item node as itemSave writes it, with its toggle and content children
MkItem(cont, linkGroup, openDefault, duration) ==
    [cont |-> cont, linkGroup |-> linkGroup, openDefault |-> openDefault,
     duration |-> duration, easing |-> Null, contentFade |-> Null,
     fadeDuration |-> Null, slideDistance |-> Null, stagger |-> Null,
     hasToggle |-> TRUE, hasContent |-> TRUE, itemId |-> Null]

Containers == DOMAIN doc.c
Items == DOMAIN doc.i

\* container.querySelectorAll(':scope > .wp-block-accordion-item')
ItemsOf(c) == {i \in Items : doc.i[i].cont = c}

\* the node is connected to the document, att telling which nodes are attached
RECURSIVE InDocA(_, _)
InDocA(att, c) ==
    /\ att[c]
    /\ IF doc.c[c].parent = 0 THEN TRUE
       ELSE InDocA(att, doc.i[doc.c[c].parent].cont)

InDoc(c) == InDocA(attached, c)

\* item i lies inside item a (through attached nodes)
RECURSIVE Under(_, _)
Under(i, a) ==
    LET c == doc.i[i].cont
        p == doc.c[c].parent
    IN  attached[c] /\ p # 0 /\ (p = a \/ Under(p, a))

\* container d lies inside node c (through attached nodes)
RECURSIVE ContUnder(_, _)
ContUnder(d, c) ==
    LET p == doc.c[d].parent
    IN  attached[d] /\ p # 0 /\ (doc.i[p].cont = c \/ ContUnder(doc.i[p].cont, c))

Min(S) == CHOOSE x \in S : \A y \in S : x <= y

\* item.querySelector('.aa-toggle-button'): the first in document order, the
\* item's own button or, without one, a button of an accordion nested in it; 0 = null
ToggleOf(i) ==
    IF doc.i[i].hasToggle THEN i
    ELSE LET below == {j \in Items : Under(j, i) /\ doc.i[j].hasToggle}
         IN  IF below = {} THEN 0 ELSE Min(below)

\* item.querySelector('.wp-block-accordion-content'); nested accordions live
\* inside the item's own panel, so without one there is none; 0 = null
ContentOf(i) ==
    IF doc.i[i].hasContent THEN i ELSE 0

\* item.closest('.wp-block-advanced-accordion')
ClosestContainer(i) == doc.i[i].cont

(* ------------------------------------------------------------------ *)
(* Settings                                                           *)
(* ------------------------------------------------------------------ *)

\* constructor: this.defaults
Defaults(c) ==
    [duration      |-> dataNum(doc.c[c].duration, Num(400)),
     easing        |-> dataStr(doc.c[c].easing, <<"ease">>),
     contentFade   |-> dataBool(doc.c[c].contentFade, TRUE),
     fadeDuration  |-> dataNum(doc.c[c].fadeDuration, Num(300)),
     slideDistance |-> dataNum(doc.c[c].slideDistance, Num(10000)),
     stagger       |-> dataNum(doc.c[c].stagger, Num(0))]

\* a merge that takes an item's attribute only when its value is truthy, so that an
\* explicit 0 or false falls through to the defaults: C22 must fail under it
ItemSettingsTruthy(d, i) ==
    LET a == doc.i[i]
        Has(f) == a[f].p /\ a[f] \notin {Attr(<<"0">>), Attr(<<"false">>)}
    IN  [duration      |-> IF Has("duration") THEN dataNum(a.duration, d.duration)
                           ELSE d.duration,
         easing        |-> IF Has("easing") THEN dataStr(a.easing, d.easing)
                           ELSE d.easing,
         contentFade   |-> IF Has("contentFade")
                           THEN dataBool(a.contentFade, d.contentFade)
                           ELSE d.contentFade,
         fadeDuration  |-> IF Has("fadeDuration")
                           THEN dataNum(a.fadeDuration, d.fadeDuration)
                           ELSE d.fadeDuration,
         slideDistance |-> IF Has("slideDistance")
                           THEN dataNum(a.slideDistance, d.slideDistance)
                           ELSE d.slideDistance,
         stagger       |-> IF Has("stagger") THEN dataNum(a.stagger, d.stagger)
                           ELSE d.stagger]

\* _getSettings(item), the merge of the item's overrides into the defaults d
ItemSettings(d, i) ==
    LET a == doc.i[i]
    IN  [duration      |-> IF a.duration.p THEN dataNum(a.duration, d.duration)
                           ELSE d.duration,
         easing        |-> IF a.easing.p THEN dataStr(a.easing, d.easing)
                           ELSE d.easing,
         contentFade   |-> IF a.contentFade.p THEN dataBool(a.contentFade, d.contentFade)
                           ELSE d.contentFade,
         fadeDuration  |-> IF a.fadeDuration.p THEN dataNum(a.fadeDuration, d.fadeDuration)
                           ELSE d.fadeDuration,
         slideDistance |-> IF a.slideDistance.p
                           THEN dataNum(a.slideDistance, d.slideDistance)
                           ELSE d.slideDistance,
         stagger       |-> IF a.stagger.p THEN dataNum(a.stagger, d.stagger)
                           ELSE d.stagger]

\* _getSettings without the reduced-motion override: C7 must fail under it
GetSettingsKeepMotion(d, i) == ItemSettings(d, i)

\* an override that zeroes the duration only: C23 must fail under it
ReducedMotionDurationOnly(s) ==
    IF rm THEN [s EXCEPT !.duration = Num(0)] ELSE s

\* the reduced-motion override at the end of _getSettings
ReducedMotion(s) ==
    IF rm
    THEN [s EXCEPT !.duration = Num(0), !.fadeDuration = Num(0), !.stagger = Num(0)]
    ELSE s

\* _getSettings(item) of a Coordinator whose defaults are d
GetSettings(d, i) == ReducedMotion(ItemSettings(d, i))

(* ------------------------------------------------------------------ *)
(* Inline styles                                                      *)
(* ------------------------------------------------------------------ *)

\* content.style.maxHeight: '' (unset), 'none', or a length in px
MhUnset == [k |-> "", v |-> 0]
MhNone == [k |-> "none", v |-> 0]
MhPx(h) == [k |-> "px", v |-> h]

\* style.transition: '', 'none', or one written by the script with its duration
TrUnset == [k |-> "", d |-> Num(0)]
TrNone == [k |-> "none", d |-> Num(0)]
TrMaxHeight(d) == [k |-> "max-height", d |-> d]
TrFade(d) == [k |-> "fade", d |-> d]

\* child.style.transform: '' or translateY(v)
TfUnset == [k |-> "", v |-> 0]
TfY(v) == [k |-> "y", v |-> v]

\* a time the CSS parser accepts; an assignment of an invalid value is dropped
ValidTime(n) == ~n.nan /\ n.v >= 0

\* the DOM state of an item as the markup gives it, before hydration
\* an id or id reference that is not set
NoId == <<>>

\* `aa-${Math.random().toString(36).slice(2, 10)}`: the value drawn for item i
RandomId(i) == <<"aa-", i>>

\* item.getAttribute('data-item-id') || RandomId: null and "" are falsy
ItemId(i) ==
    IF doc.i[i].itemId.p /\ doc.i[i].itemId.s # <<>> THEN doc.i[i].itemId.s
    ELSE RandomId(i)

\* `${id}-toggle` and `${id}-content`
SuffixedId(id, suffix) == <<id, suffix>>

RawItem ==
    [isOpen |-> FALSE, aria |-> "false", hidden |-> FALSE, noFade |-> FALSE,
     mh |-> MhUnset, tr |-> TrUnset, ov |-> "", closing |-> FALSE,
     chOp |-> "", chTf |-> TfUnset, chTr |-> TrUnset,
     nOnEnd |-> 0, nDbg |-> 0, cs |-> <<>>, running |-> FALSE,
     toggleId |-> NoId, controls |-> NoId, contentId |-> NoId, labelledby |-> NoId]

\* the content panel of i is rendered: connected, and no panel around it is hidden
Rendered(W, i) ==
    /\ InDocA(W.att, doc.i[i].cont)
    /\ ~W.item[i].hidden
    /\ \A a \in Items : Under(i, a) => ~W.item[a].hidden

\* content.offsetHeight / content.scrollHeight of the panel of i
Measure(W, i) == IF Rendered(W, i) THEN nat[i] ELSE 0

(* ------------------------------------------------------------------ *)
(* Open                                                               *)
(* ------------------------------------------------------------------ *)

\* the rendered height of the panel of item i while no transition runs on it: the
\* content's height, cut at max-height when that is a length
RenderedHeight(W, i) ==
    IF ~Rendered(W, i) THEN 0
    ELSE IF W.item[i].mh.k = "px" THEN Min({nat[i], W.item[i].mh.v})
    ELSE nat[i]

\* the statements of _openItem after the settings are resolved, with the height
\* measured before the constraint is lifted: C33 must fail under it
OpenOpsMeasureFirst ==
    <<"isOpen", "ariaExpanded", "hidden", "noFade", "children", "transition",
      "offsetHeight", "maxHeightNone", "overflow", "maxHeightZero", "reflow",
      "requestAnimationFrame", "onEnd">>

\* the statements of _openItem after the settings are resolved, in source order
OpenOps ==
    <<"isOpen", "ariaExpanded", "hidden", "noFade", "children", "transition",
      "maxHeightNone", "overflow", "offsetHeight", "maxHeightZero", "reflow",
      "requestAnimationFrame", "onEnd">>

\* before the statements run: W, the mutable state; target, the height measured;
\* measured, it has been measured; flushed, a layout has been computed since the
\* last style write; log, for each statement run, the state it found
OpenStart(W) ==
    [W |-> W, target |-> 0, measured |-> FALSE, flushed |-> FALSE, log |-> <<>>]

\* one statement of the open of item i with settings s, duration dur and children
\* animated iff fade
OpenOp(i, s, dur, fade, op, st) ==
    CASE op = "isOpen" -> [st EXCEPT !.W.item[i].isOpen = TRUE]
      [] op = "ariaExpanded" -> [st EXCEPT !.W.item[ToggleOf(i)].aria = "true"]
      [] op = "hidden" -> [st EXCEPT !.W.item[i].hidden = FALSE]
      [] op = "noFade" -> [st EXCEPT !.W.item[i].noFade = ~s.contentFade]
      [] op = "children" ->
            [st EXCEPT !.W.item[i].chOp = IF fade THEN "0" ELSE @,
                       !.W.item[i].chTf = IF fade /\ ~s.slideDistance.nan
                                          THEN TfY(s.slideDistance.v) ELSE @]
      [] op = "transition" ->
            [st EXCEPT !.W.item[i].tr = TrNone, !.W.item[i].running = FALSE,
                       !.flushed = FALSE]
      [] op = "maxHeightNone" -> [st EXCEPT !.W.item[i].mh = MhNone, !.flushed = FALSE]
      [] op = "overflow" -> [st EXCEPT !.W.item[i].ov = "hidden", !.flushed = FALSE]
      [] op = "offsetHeight" ->
            [st EXCEPT !.target = RenderedHeight(st.W, i), !.measured = TRUE,
                       !.flushed = TRUE]
      [] op = "maxHeightZero" -> [st EXCEPT !.W.item[i].mh = MhPx(0), !.flushed = FALSE]
      [] op = "reflow" -> [st EXCEPT !.flushed = TRUE]
      [] op = "requestAnimationFrame" ->
            [st EXCEPT !.W.raf = Append(@, [k |-> "open", i |-> i, dur |-> dur,
                                            target |-> st.target, fade |-> fade,
                                            s |-> s])]
      [] op = "onEnd" ->
            [st EXCEPT !.W.item[i].nOnEnd = IF Positive(dur) THEN @ + 1 ELSE @,
                       !.W.item[i].mh = IF Positive(dur) THEN @ ELSE MhNone]

\* the statements ops, in order, each logged with the state it found
RECURSIVE RunOpenOps(_, _, _, _, _, _)
RunOpenOps(i, s, dur, fade, ops, st) ==
    IF ops = <<>> THEN st
    ELSE RunOpenOps(i, s, dur, fade, Tail(ops),
                    OpenOp(i, s, dur, fade, Head(ops),
                           [st EXCEPT !.log = Append(@, [op |-> Head(ops),
                                                         it |-> st.W.item[i],
                                                         aria |-> st.W.item[ToggleOf(i)].aria,
                                                         measured |-> st.measured,
                                                         flushed |-> st.flushed])]))

\* _openItem with the settings s resolved
OpenWith(W, i, s, instant) ==
    RunOpenOps(i, s, IF instant THEN Num(0) ELSE s.duration, s.contentFade /\ ~instant,
               OpenOps, OpenStart(W)).W

\* _openItem(item, instant) of a Coordinator whose defaults are d
OpenItem(W, d, i, instant) ==
    IF ToggleOf(i) = 0 \/ ContentOf(i) = 0 THEN W
    ELSE OpenWith(W, i, GetSettings(d, i), instant)

(* ------------------------------------------------------------------ *)
(* Close                                                              *)
(* ------------------------------------------------------------------ *)

\* cleanup() of the close of item i started with content fade `fade` and toggle `toggle`
Cleanup(its, i, toggle, fade) ==
    [its EXCEPT
       ![i] = [@ EXCEPT !.isOpen = FALSE, !.hidden = TRUE, !.mh = MhUnset,
                        !.tr = TrUnset, !.ov = "", !.running = FALSE,
                        !.chTr = IF fade THEN TrUnset ELSE @,
                        !.chOp = IF fade THEN "" ELSE @,
                        !.chTf = IF fade THEN TfUnset ELSE @,
                        !.closing = FALSE],
       ![toggle].aria = "false"]

\* the statements of _closeItem between the guard and cleanup, in program order:
\* dataset.isClosing, the aa-no-fade class, the read of scrollHeight, then the
\* writes of transition, overflow and max-height, then the read of offsetHeight
CloseOps ==
    <<"isClosing", "noFade", "scrollHeight", "transition", "overflow", "maxHeight",
      "offsetHeight">>

\* the panel before the statements run: it, the DOM state of the item; h, the height
\* read; ovSet and mhSet, this close has written overflow and max-height; ovFlushed
\* and mhFlushed, a layout has been computed since; constrained, the height was
\* read after this close had written overflow and a layout had been computed
CloseStart(it) ==
    [it |-> it, h |-> 0, ovSet |-> FALSE, ovFlushed |-> FALSE, mhSet |-> FALSE,
     mhFlushed |-> FALSE, constrained |-> FALSE]

\* one statement; a read of a layout property computes the layout first
CloseOp(W, i, s, op, st) ==
    CASE op = "isClosing" -> [st EXCEPT !.it.closing = TRUE]
      [] op = "noFade" -> [st EXCEPT !.it.noFade = ~s.contentFade]
      [] op = "scrollHeight" ->
            [st EXCEPT !.h = Measure(W, i), !.constrained = st.ovSet /\ st.ovFlushed,
                       !.ovFlushed = st.ovSet, !.mhFlushed = st.mhSet]
      [] op = "transition" -> [st EXCEPT !.it.tr = TrNone, !.it.running = FALSE]
      [] op = "overflow" ->
            [st EXCEPT !.it.ov = "hidden", !.ovSet = TRUE, !.ovFlushed = FALSE]
      [] op = "maxHeight" ->
            [st EXCEPT !.it.mh = MhPx(st.h), !.mhSet = TRUE, !.mhFlushed = FALSE]
      [] op = "offsetHeight" ->
            [st EXCEPT !.ovFlushed = st.ovSet, !.mhFlushed = st.mhSet]

\* the statements ops, in order
RECURSIVE RunCloseOps(_, _, _, _, _)
RunCloseOps(W, i, s, ops, st) ==
    IF ops = <<>> THEN st
    ELSE RunCloseOps(W, i, s, Tail(ops), CloseOp(W, i, s, Head(ops), st))

\* _closeItem after the guard: the guard is set and the height locked at the measured
\* height
CloseLocked(W, i, s) ==
    [W EXCEPT !.item[i] = RunCloseOps(W, i, s, CloseOps, CloseStart(@)).it]

\* duration > 0: debugHandler, transitionEndHandler, fallbackTimeout, the frame callback
CloseAnimated(W, i, toggle, s) ==
    [W EXCEPT
       !.item[i] = [@ EXCEPT !.nDbg = @ + 1,
                             !.cs = Append(@, [fade |-> s.contentFade, toggle |-> toggle,
                                               teh |-> TRUE, timer |-> TRUE])],
       !.raf = Append(@, [k |-> "close", i |-> i, dur |-> s.duration, target |-> 0,
                          fade |-> s.contentFade, s |-> s])]

\* duration = 0: max-height 0px, then cleanup at once
CloseInstant(W, i, toggle, s) ==
    [W EXCEPT !.item = Cleanup([@ EXCEPT ![i].mh = MhPx(0)], i, toggle, s.contentFade)]

\* _closeItem with the settings s resolved
CloseWith(W, i, s) ==
    IF Positive(s.duration)
    THEN CloseAnimated(CloseLocked(W, i, s), i, ToggleOf(i), s)
    ELSE CloseInstant(CloseLocked(W, i, s), i, ToggleOf(i), s)

\* a _closeItem without the double-close guard: C16 must fail under it
CloseItemUnguarded(W, d, i) ==
    IF ToggleOf(i) = 0 \/ ContentOf(i) = 0 THEN W
    ELSE CloseWith(W, i, GetSettings(d, i))

\* _closeItem(item) of a Coordinator whose defaults are d
CloseItem(W, d, i) ==
    IF ToggleOf(i) = 0 \/ ContentOf(i) = 0 THEN W
    ELSE IF W.item[i].closing THEN W
    ELSE CloseWith(W, i, GetSettings(d, i))

(* ------------------------------------------------------------------ *)
(* The registry                                                       *)
(* ------------------------------------------------------------------ *)

\* AdvancedAccordion.register(container, instance): instance is coord[c][g]
Register(W, c, g) == [W EXCEPT !.reg[c] = g]

\* an unregister that empties the registry: C11 must fail under it
UnregisterAll(W, c) == [W EXCEPT !.reg = [d \in DOMAIN @ |-> 0]]

\* AdvancedAccordion.unregister(container)
Unregister(W, c) == [W EXCEPT !.reg[c] = 0]

\* a lookup that never finds a Coordinator, so that the one that asks acts on every
\* linked item: C30 must fail under it
InstanceNever(W, i) == <<doc.i[i].cont, 0>>

\* AdvancedAccordion.instanceForItem(item): <<c, g>> of the Coordinator, g = 0 when none
InstanceForItem(W, i) ==
    LET c == ClosestContainer(i) IN <<c, W.reg[c]>>

(* ------------------------------------------------------------------ *)
(* Link groups                                                        *)
(* ------------------------------------------------------------------ *)

\* the defaults a request on item i runs with: those of the Coordinator registered
\* for the item's container, else those (d) of the Coordinator that asks
InstanceDefaults(W, inst, d) ==
    IF inst[2] # 0 THEN W.coord[inst[1]][inst[2]].defaults ELSE d

GlobalDefaults(W, d, i) == InstanceDefaults(W, InstanceForItem(W, i), d)

\* _openItemGlobal(item)
OpenItemGlobal(W, d, i) == OpenItem(W, GlobalDefaults(W, d, i), i, FALSE)

\* _closeItemGlobal(item)
CloseItemGlobal(W, d, i) == CloseItem(W, GlobalDefaults(W, d, i), i)

\* document.querySelectorAll('.wp-block-accordion-item[data-link-group="groupId"]')
AllLinked(W, groupId) ==
    {j \in Items : InDocA(W.att, doc.i[j].cont) /\ doc.i[j].linkGroup = Attr(groupId)}

\* the forEach of _syncLinkedGroup, from item k on in document order
RECURSIVE SyncFrom(_, _, _, _, _, _)
SyncFrom(W, d, groupId, triggerItem, shouldOpen, k) ==
    IF k > Cardinality(Items) THEN W
    ELSE SyncFrom(IF k \notin AllLinked(W, groupId) \/ k = triggerItem THEN W
                  ELSE IF shouldOpen /\ ~W.item[k].isOpen THEN OpenItemGlobal(W, d, k)
                  ELSE IF ~shouldOpen /\ W.item[k].isOpen THEN CloseItemGlobal(W, d, k)
                  ELSE W,
                  d, groupId, triggerItem, shouldOpen, k + 1)

\* a _syncLinkedGroup that leaves the other items alone: C1 must fail under it
SyncNothing(W, d, groupId, triggerItem, shouldOpen) == W

\* _syncLinkedGroup(groupId, triggerItem, shouldOpen)
SyncLinkedGroup(W, d, groupId, triggerItem, shouldOpen) ==
    SyncFrom(W, d, groupId, triggerItem, shouldOpen, 1)

(* ------------------------------------------------------------------ *)
(* Toggle                                                             *)
(* ------------------------------------------------------------------ *)

\* an auto-close that spares no sibling: C3 must fail under it
SameGroupNever(sibling, groupAttr) == FALSE

\* an auto-close that spares a group mate only if it was open before the click: C37
\* must fail under it
SameGroupOpenBefore(sibling, groupAttr) ==
    /\ doc.i[sibling].linkGroup.p /\ doc.i[sibling].linkGroup.s # <<>>
    /\ doc.i[sibling].linkGroup = groupAttr
    /\ item[sibling].isOpen

\* the sibling is spared by auto-close: it has a link group, the one being opened
SameGroup(sibling, groupAttr) ==
    LET siblingGroup == doc.i[sibling].linkGroup
    IN  siblingGroup.p /\ siblingGroup.s # <<>> /\ siblingGroup = groupAttr

\* the forEach over this.items of the auto-close, from item k on
RECURSIVE AutoCloseFrom(_, _, _, _, _)
AutoCloseFrom(W, c, d, i, k) ==
    IF k > Cardinality(Items) THEN W
    ELSE AutoCloseFrom(IF /\ k \in ItemsOf(c)
                          /\ k # i
                          /\ W.item[k].isOpen
                          /\ ~SameGroup(k, doc.i[i].linkGroup)
                       THEN CloseItem(W, d, k) ELSE W,
                       c, d, i, k + 1)

\* a first step of _toggle that takes a closing item for a closed one: C36 must fail
\* under it
ToggleItemReopens(W, d, i) ==
    IF W.item[i].isOpen /\ ~W.item[i].closing THEN CloseItem(W, d, i)
    ELSE OpenItem(W, d, i, FALSE)

\* the first step of _toggle: close an open item, open a closed one
ToggleItem(W, d, i) ==
    IF W.item[i].isOpen THEN CloseItem(W, d, i) ELSE OpenItem(W, d, i, FALSE)

\* the second step of _toggle: the linked items, when the item has a link group
ToggleLinked(W, d, i, isOpen) ==
    IF doc.i[i].linkGroup.p /\ doc.i[i].linkGroup.s # <<>>
    THEN SyncLinkedGroup(W, d, doc.i[i].linkGroup.s, i, ~isOpen) ELSE W

\* an auto-close that also runs when allow-multiple is false: C31 must fail under it
ToggleAutoCloseSingle(W, c, g, i, isOpen) ==
    IF ~isOpen /\ (W.coord[c][g].autoClose \/ ~W.coord[c][g].allowMultiple)
    THEN AutoCloseFrom(W, c, W.coord[c][g].defaults, i, 1) ELSE W

\* the third step of _toggle: the auto-close, after an open
ToggleAutoClose(W, c, g, i, isOpen) ==
    IF ~isOpen /\ W.coord[c][g].autoClose
    THEN AutoCloseFrom(W, c, W.coord[c][g].defaults, i, 1) ELSE W

\* _toggle(item) of the Coordinator coord[c][g]
Toggle(W, c, g, i) ==
    ToggleAutoClose(
        ToggleLinked(ToggleItem(W, W.coord[c][g].defaults, i),
                     W.coord[c][g].defaults, i, W.item[i].isOpen),
        c, g, i, W.item[i].isOpen)

\* the click listeners ls of a toggle, run in order
RECURSIVE RunClick(_, _)
RunClick(W, ls) ==
    IF ls = <<>> THEN W
    ELSE RunClick(Toggle(W, Head(ls).c, Head(ls).g, Head(ls).i), Tail(ls))

\* toggle.click(): the listeners attached when the event is dispatched
DispatchClick(W, toggle) == RunClick(W, W.clickL[toggle])

(* ------------------------------------------------------------------ *)
(* Hydration and teardown                                             *)
(* ------------------------------------------------------------------ *)

\* the closed branch of _initItem: aria-expanded false, hidden, max-height 0,
\* overflow hidden
InitClosed(W, i, toggle) ==
    [W EXCEPT !.item = [@ EXCEPT ![i] = [@ EXCEPT !.hidden = TRUE, !.mh = MhPx(0),
                                                  !.ov = "hidden"],
                                 ![toggle].aria = "false"]]

\* the ids and ARIA references written by _initItem on the toggle and the panel
WireAria(W, i, toggle) ==
    [W EXCEPT !.item = [@ EXCEPT ![toggle].toggleId = SuffixedId(ItemId(i), "-toggle"),
                                 ![i].contentId = SuffixedId(ItemId(i), "-content"),
                                 ![toggle].controls = SuffixedId(ItemId(i), "-content"),
                                 ![i].labelledby = SuffixedId(ItemId(i), "-toggle")]]

\* the click handler of _initItem, attached to the toggle and kept in this._listeners
AddClickListener(H, c, g, i, toggle) ==
    [W |-> [H.W EXCEPT !.clickL[toggle] = Append(@, [c |-> c, g |-> g, i |-> i])],
     K |-> [H.K EXCEPT !.listeners = {p \in @ : p[1] # toggle} \cup {<<toggle, i>>}]]

\* _initItem(item) of the Coordinator being constructed as coord[c][g]; H: the
\* mutable state W and the fields K of the Coordinator so far
InitItem(H, c, g, i) ==
    IF ToggleOf(i) = 0 \/ ContentOf(i) = 0 THEN H
    ELSE AddClickListener(
             [H EXCEPT !.W = IF dataBool(doc.i[i].openDefault, FALSE)
                             THEN OpenItem(WireAria(@, i, ToggleOf(i)),
                                           H.K.defaults, i, TRUE)
                             ELSE InitClosed(WireAria(@, i, ToggleOf(i)),
                                             i, ToggleOf(i))],
             c, g, i, ToggleOf(i))

\* this.items.forEach(_initItem), from item k on
RECURSIVE InitItemsFrom(_, _, _, _)
InitItemsFrom(H, c, g, k) ==
    IF k > Cardinality(Items) THEN H
    ELSE InitItemsFrom(IF k \in ItemsOf(c) THEN InitItem(H, c, g, k) ELSE H, c, g, k + 1)

\* the fields of a Coordinator of container c before _init()
NewCoordinator(c) ==
    [defaults |-> Defaults(c),
     autoClose |-> dataBool(doc.c[c].autoClose, FALSE),
     allowMultiple |-> dataBool(doc.c[c].allowMultiple, TRUE),
     listeners |-> {}, kd |-> TRUE, ro |-> TRUE]

\* the Coordinator H.K, constructed, becomes the last one of container c
Constructed(H, c) == [H.W EXCEPT !.coord[c] = Append(@, H.K)]

\* new AdvancedAccordion(container): the constructor and _init()
Construct(W, c) ==
    Constructed(InitItemsFrom([W |-> W, K |-> NewCoordinator(c)], c,
                              Len(W.coord[c]) + 1, 1), c)

\* AdvancedAccordion.register(el, instance) for the instance just constructed
RegisterNew(W, c) == Register(W, c, Len(W.coord[c]))

\* a marker that is never found set: C5 must fail under it
NeverHydrated(W, c) == FALSE

\* the idempotency marker of init() and of the observer: dataset.aaInit
AlreadyHydrated(W, c) == W.aaInit[c]

\* one container seen by init() or by the observer's added-nodes loop
Hydrate(W, c) ==
    IF AlreadyHydrated(W, c) THEN W
    ELSE RegisterNew(Construct([W EXCEPT !.aaInit[c] = TRUE], c), c)

\* a destroy() that leaves the click listeners attached: C10 must fail under it
KeepClickListeners(W, c, g) == W

\* toggle.removeEventListener('click', handler) for every entry of this._listeners
RemoveClickListeners(W, c, g) ==
    LET ls == W.coord[c][g].listeners
        Keep(toggle, l) == ~(l.c = c /\ l.g = g /\ <<toggle, l.i>> \in ls)
    IN  [W EXCEPT !.clickL =
           [tg \in DOMAIN @ |-> SelectSeq(@[tg], LAMBDA l : Keep(tg, l))]]

\* destroy() of the Coordinator coord[c][g]
Destroy(W, c, g) ==
    Unregister([RemoveClickListeners(W, c, g) EXCEPT !.coord[c][g] =
                   [@ EXCEPT !.ro = FALSE, !.kd = FALSE, !.listeners = {}]], c)

\* the removed-nodes loop for one container: destroy the registered instance, if any
DestroyRegistered(W, c) ==
    IF W.reg[c] # 0 THEN Destroy(W, c, W.reg[c]) ELSE W

\* op applied to the containers of S in document order, from container k on
RECURSIVE HydrateEach(_, _, _)
HydrateEach(W, S, k) ==
    IF k > Cardinality(Containers) THEN W
    ELSE HydrateEach(IF k \in S THEN Hydrate(W, k) ELSE W, S, k + 1)

RECURSIVE DestroyEach(_, _, _)
DestroyEach(W, S, k) ==
    IF k > Cardinality(Containers) THEN W
    ELSE DestroyEach(IF k \in S THEN DestroyRegistered(W, k) ELSE W, S, k + 1)

\* node.querySelectorAll('.wp-block-advanced-accordion') of a container node
NestedIn(c) == {d \in Containers : ContUnder(d, c)}

\* init(): every container of the document
InitDocument(W) ==
    HydrateEach(W, {c \in Containers : InDocA(W.att, c)}, 1)

\* the observer's callback for one added container node
ObserveAdded(W, c) == HydrateEach(Hydrate(W, c), NestedIn(c), 1)

\* the observer's callback for one removed container node
ObserveRemoved(W, c) == DestroyEach(DestroyRegistered(W, c), NestedIn(c), 1)

\* the observer's callback: the MutationRecords q of one batch, in order
RECURSIVE ObserverCallback(_, _)
ObserverCallback(W, q) ==
    IF q = <<>> THEN W
    ELSE ObserverCallback(IF Head(q).k = "added" THEN ObserveAdded(W, Head(q).c)
                          ELSE ObserveRemoved(W, Head(q).c),
                          Tail(q))

\* observer.observe(document.body, {childList, subtree}): a change of the children
\* at the parent position of container node c is recorded when that position is
\* in the document
Observed(c) ==
    \/ doc.c[c].parent = 0
    \/ InDoc(doc.i[doc.c[c].parent].cont)

\* the records the observer is called with when container node c alone changed
RecordsOf(kind, c) ==
    IF Observed(c) THEN <<[k |-> kind, c |-> c]>> ELSE <<>>

(* ------------------------------------------------------------------ *)
(* Resize                                                             *)
(* ------------------------------------------------------------------ *)

\* a max-height transition starts when the value changes between two lengths
\* under a transition of positive duration on a rendered panel
Starts(W, i, before, after) ==
    /\ after.tr.k = "max-height" /\ Positive(after.tr.d)
    /\ before.mh.k = "px" /\ after.mh.k = "px" /\ before.mh.v # after.mh.v
    /\ Rendered(W, i)

\* _recalcOpenHeights() of a Coordinator of container c
RecalcOpenHeights(W, c) ==
    LET Recalc(i) ==
            LET it == W.item[i]
                it2 == [it EXCEPT !.mh = MhPx(Measure(W, i))]
            IN  IF i \notin ItemsOf(c) \/ ~it.isOpen THEN it
                ELSE IF ContentOf(i) # 0 /\ it.closing THEN it
                ELSE IF ContentOf(i) # 0 /\ it.mh # MhNone
                     THEN [it2 EXCEPT !.running = @ \/ Starts(W, i, it, it2)]
                     ELSE it
    IN  [W EXCEPT !.item = [i \in Items |-> Recalc(i)]]

(* ------------------------------------------------------------------ *)
(* Keyboard                                                           *)
(* ------------------------------------------------------------------ *)

Keys == {"ArrowDown", "ArrowUp", "Home", "End", "Enter", " ", "Escape"}

\* the keys that activate the focused toggle
ActivationKeys == {"Enter", " "}

\* the toggles in reverse document order: C13 must fail under it
RECURSIVE TogglesReversed(_, _)
TogglesReversed(c, k) ==
    IF k > Cardinality(Items) THEN <<>>
    ELSE TogglesReversed(c, k + 1)
         \o (IF k \in ItemsOf(c) /\ ToggleOf(k) # 0 THEN <<ToggleOf(k)>> ELSE <<>>)

\* this.items.map(querySelector).filter(Boolean), from item k on
RECURSIVE TogglesFrom(_, _)
TogglesFrom(c, k) ==
    IF k > Cardinality(Items) THEN <<>>
    ELSE (IF k \in ItemsOf(c) /\ ToggleOf(k) # 0 THEN <<ToggleOf(k)>> ELSE <<>>)
         \o TogglesFrom(c, k + 1)

\* an indexOf that finds every toggle button at index 0: C14 must fail under it
IndexOfFirst(toggles, target) == IF target = 0 THEN 0 - 1 ELSE 0

\* toggles.indexOf(target), 0-based, -1 when absent
IndexOf(toggles, target) ==
    LET at == {n \in 1..Len(toggles) : toggles[n] = target}
    IN  IF at = {} THEN 0 - 1 ELSE Min(at) - 1

\* _handleKeyboard(e) of a Coordinator of container c; E: the event being dispatched
\* (W, the toggle focus() was called on, whether the default was prevented)
HandleKeyboard(E, c, target, key) ==
    LET toggles == TogglesFrom(c, 1)
        n == Len(toggles)
        index == IndexOf(toggles, target)
    IN  IF index = 0 - 1 THEN E
        ELSE CASE key = "ArrowDown" ->
                    [E EXCEPT !.prevented = TRUE, !.focus = toggles[((index + 1) % n) + 1]]
               [] key = "ArrowUp" ->
                    [E EXCEPT !.prevented = TRUE, !.focus = toggles[((index - 1 + n) % n) + 1]]
               [] key = "Home" ->
                    [E EXCEPT !.prevented = TRUE, !.focus = toggles[1]]
               [] key = "End" ->
                    [E EXCEPT !.prevented = TRUE, !.focus = toggles[n]]
               [] key \in {"Enter", " "} ->
                    [E EXCEPT !.prevented = TRUE, !.W = DispatchClick(@, target)]
               [] OTHER -> E

\* the keydown listeners of container node c: its Coordinators not yet destroyed
RECURSIVE KeydownAt(_, _, _, _, _)
KeydownAt(E, c, g, target, key) ==
    IF g > Len(E.W.coord[c]) THEN E
    ELSE KeydownAt(IF E.W.coord[c][g].kd THEN HandleKeyboard(E, c, target, key) ELSE E,
                   c, g + 1, target, key)

\* where the event goes after the listeners of container c: the container around it
BubbleOn(E, c, target, key) ==
    IF E.W.att[c] /\ doc.c[c].parent # 0 THEN doc.i[doc.c[c].parent].cont ELSE 0

\* the event bubbles from container c to the containers around it
RECURSIVE KeydownBubble(_, _, _, _)
KeydownBubble(E, c, target, key) ==
    IF c = 0 THEN E
    ELSE KeydownBubble(KeydownAt(E, c, 1, target, key), BubbleOn(E, c, target, key),
                       target, key)

\* a default action that preventDefault() does not cancel: C15 must fail under it
DefaultActionAlways(E, target, key) ==
    IF key \in {"Enter", " "} THEN [E EXCEPT !.W = DispatchClick(@, target)] ELSE E

\* a button's default action for Enter and Space, unless prevented: a click
DefaultAction(E, target, key) ==
    IF key \in {"Enter", " "} /\ ~E.prevented
    THEN [E EXCEPT !.W = DispatchClick(@, target)] ELSE E

\* a keydown on a toggle button
DispatchKeydown(W, target, key) ==
    DefaultAction(KeydownBubble([W |-> W, focus |-> 0, prevented |-> FALSE],
                                doc.i[target].cont, target, key),
                  target, key)

(* ------------------------------------------------------------------ *)
(* Callbacks                                                          *)
(* ------------------------------------------------------------------ *)

\* _fadeInChildren(content, s)
FadeInChildren(it, s) ==
    [it EXCEPT !.chTr = IF ValidTime(s.fadeDuration) /\ ~s.stagger.nan
                        THEN TrFade(s.fadeDuration) ELSE @,
               !.chOp = "1", !.chTf = TfY(0)]

\* _fadeOutChildren(content, s)
FadeOutChildren(it, s) ==
    [it EXCEPT !.chTr = IF ValidTime(s.fadeDuration) THEN TrFade(s.fadeDuration) ELSE @,
               !.chOp = "0",
               !.chTf = IF s.slideDistance.nan THEN @ ELSE TfY(0 - s.slideDistance.v)]

\* the requestAnimationFrame callback of _openItem
OpenFrame(it, cb) ==
    LET it1 == [it EXCEPT !.tr = IF ValidTime(cb.dur) THEN TrMaxHeight(cb.dur) ELSE @,
                          !.mh = MhPx(cb.target)]
    IN  IF cb.fade THEN FadeInChildren(it1, cb.s) ELSE it1

\* the requestAnimationFrame callback of _closeItem
CloseFrame(it, cb) ==
    LET it1 == [it EXCEPT !.tr = IF ValidTime(cb.dur) THEN TrMaxHeight(cb.dur) ELSE @,
                          !.mh = MhPx(0)]
    IN  IF cb.fade THEN FadeOutChildren(it1, cb.s) ELSE it1

\* the callbacks of one animation frame, in the order they were registered
RECURSIVE RunFrame(_, _)
RunFrame(its, q) ==
    IF q = <<>> THEN its
    ELSE LET cb == Head(q)
             it == IF cb.k = "open" THEN OpenFrame(its[cb.i], cb)
                   ELSE CloseFrame(its[cb.i], cb)
         IN  RunFrame([its EXCEPT ![cb.i] = it], Tail(q))

\* one frame: the callbacks, then the style change that starts the transitions
AnimationFrame(W) ==
    LET its == RunFrame(W.item, W.raf)
        touched == {W.raf[n].i : n \in 1..Len(W.raf)}
        W1 == [W EXCEPT !.item = its]
    IN  [W EXCEPT !.raf = <<>>,
                  !.item = [i \in Items |->
                              IF i \in touched
                              THEN [its[i] EXCEPT !.running = Starts(W1, i, W.item[i], its[i])]
                              ELSE its[i]]]

\* onEnd of _openItem for a max-height transition-end: every one attached releases the
\* height and removes itself
OnEnd(it) ==
    IF it.nOnEnd > 0 THEN [it EXCEPT !.mh = MhNone, !.nOnEnd = 0] ELSE it

\* transitionEndHandler of the close sequences of item i, for a max-height
\* transition-end of its own panel: listeners removed, timer cleared, cleanup
RECURSIVE CloseHandlers(_, _, _)
CloseHandlers(its, i, seqs) ==
    IF seqs = <<>> THEN its
    ELSE LET q == Head(seqs)
             its1 == IF q.teh
                     THEN Cleanup([its EXCEPT ![i].nDbg = @ - 1], i, q.toggle, q.fade)
                     ELSE its
         IN  CloseHandlers(its1, i, Tail(seqs))

\* a transitionend event for max-height whose target is the panel of item i:
\* the listeners of that panel, then those of the panels around it
TransitionEndMaxHeight(W, i) ==
    LET its0 == [W.item EXCEPT ![i].running = FALSE]
        its1 == [its0 EXCEPT ![i] = OnEnd(@)]
        its2 == CloseHandlers(its1, i, its1[i].cs)
        its3 == [its2 EXCEPT ![i].cs = SelectSeq(@, LAMBDA q : ~q.teh)]
    IN  [W EXCEPT !.item = [a \in Items |-> IF Under(i, a) THEN OnEnd(its3[a]) ELSE its3[a]]]

\* a fallback timeout that does not run cleanup(): C17 must fail under it
FallbackNoCleanup(W, i, n) ==
    [W EXCEPT !.item[i].cs = SubSeq(@, 1, n - 1) \o SubSeq(@, n + 1, Len(@))]

\* a fallback timeout that runs an unguarded cleanup() and leaves
\* transitionEndHandler attached: C35 must fail under it
FallbackKeepsHandler(W, i, n) ==
    [W EXCEPT !.item = [Cleanup(W.item, i, W.item[i].cs[n].toggle, W.item[i].cs[n].fade)
                          EXCEPT ![i].cs[n].timer = FALSE]]

\* the fallback timeout of the n-th close sequence of item i
FallbackTimeout(W, i, n) ==
    LET q == W.item[i].cs[n]
        its1 == Cleanup(W.item, i, q.toggle, q.fade)
    IN  [W EXCEPT !.item =
           [its1 EXCEPT ![i].cs = SubSeq(@, 1, n - 1) \o SubSeq(@, n + 1, Len(@))]]

(* ------------------------------------------------------------------ *)
(* Documents                                                          *)
(* ------------------------------------------------------------------ *)

\* two accordions, one item each, the two items in link group g
DocPair(autoClose, duration, openDefault) ==
    [c |-> <<MkCont(0, No, duration, Yes), MkCont(0, autoClose, S04, Yes)>>,
     i |-> <<MkItem(1, G, openDefault, Null), MkItem(2, G, No, Null)>>]

(* ------------------------------------------------------------------ *)
(* The state machine                                                  *)
(* ------------------------------------------------------------------ *)

\* the script has just been loaded: nothing is hydrated yet; att tells which
\* container nodes are in the document already
InitAt(D, motion, att) ==
    /\ doc = D
    /\ rm = motion
    /\ attached = att
    /\ aaInit = [c \in DOMAIN D.c |-> FALSE]
    /\ coord = [c \in DOMAIN D.c |-> <<>>]
    /\ reg = [c \in DOMAIN D.c |-> 0]
    /\ clickL = [i \in DOMAIN D.i |-> <<>>]
    /\ item = [i \in DOMAIN D.i |-> RawItem]
    /\ raf = <<>>
    /\ nat = [i \in DOMAIN D.i |-> 1]
    /\ mut = <<>>
    /\ focus = 0

InitWith(D, motion) == InitAt(D, motion, [c \in DOMAIN D.c |-> TRUE])

\* the mutable state the handlers work on
World ==
    [item |-> item, raf |-> raf, att |-> attached, coord |-> coord, reg |-> reg,
     clickL |-> clickL, aaInit |-> aaInit]

\* the model's bounds on what a handler may leave behind
Bounded(W) ==
    /\ Len(W.raf) <= MaxRaf
    /\ \A i \in Items : W.item[i].nOnEnd <= MaxListeners /\ W.item[i].nDbg <= MaxListeners

Commit(W) ==
    /\ Bounded(W)
    /\ item' = W.item
    /\ raf' = W.raf
    /\ attached' = W.att
    /\ coord' = W.coord
    /\ reg' = W.reg
    /\ clickL' = W.clickL
    /\ aaInit' = W.aaInit
    /\ UNCHANGED doc

\* The observer's callback is a microtask: it runs when the script that changed
\* the DOM returns, before any other event, timer or frame is handled, so the
\* actions of the event loop wait for the queue of records to be empty.

\* init()
InitPass ==
    /\ mut = <<>>
    /\ Commit(InitDocument(World))
    /\ UNCHANGED <<rm, nat, mut, focus>>

\* a click on the toggle button of item t
Click(t) ==
    /\ mut = <<>>
    /\ doc.i[t].hasToggle
    /\ Commit(DispatchClick(World, t))
    /\ UNCHANGED <<rm, nat, mut, focus>>

\* where the focus is after a keydown on toggle t: on the toggle a handler called
\* focus() on, else still on t
FocusAfter(E, t) == IF E.focus # 0 THEN E.focus ELSE t

\* the toggle button of item t can take the focus: it is in the document and no
\* panel around it is hidden
Focusable(t) ==
    /\ doc.i[t].hasToggle
    /\ InDoc(doc.i[t].cont)
    /\ \A a \in Items : Under(t, a) => ~item[a].hidden

\* the user has moved the focus to the toggle button of item t and presses a key
KeyDown(t, key) ==
    /\ mut = <<>>
    /\ Focusable(t)
    /\ Commit(DispatchKeydown(World, t, key).W)
    /\ focus' = FocusAfter(DispatchKeydown(World, t, key), t)
    /\ UNCHANGED <<rm, nat, mut>>

\* the browser runs the animation-frame callbacks
Frame ==
    /\ mut = <<>>
    /\ raf # <<>>
    /\ Commit(AnimationFrame(World))
    /\ UNCHANGED <<rm, nat, mut, focus>>

\* the max-height transition of the panel of item i ends
TransitionEnd(i) ==
    /\ mut = <<>>
    /\ item[i].running
    /\ Commit(TransitionEndMaxHeight(World, i))
    /\ UNCHANGED <<rm, nat, mut, focus>>

\* the fallback timeout of a close of item i fires
Timeout(i) ==
    /\ mut = <<>>
    /\ \E n \in 1..Len(item[i].cs) :
          /\ item[i].cs[n].timer
          /\ Commit(FallbackTimeout(World, i, n))
    /\ UNCHANGED <<rm, nat, mut, focus>>

\* the ResizeObserver of a Coordinator of container c reports a size change
Resize(c) ==
    /\ mut = <<>>
    /\ \E g \in 1..Len(coord[c]) : coord[c][g].ro
    /\ Commit(RecalcOpenHeights(World, c))
    /\ UNCHANGED <<rm, nat, mut, focus>>

\* the content of the panel of item i changes its natural height
Reflow(i, h) ==
    /\ nat[i] # h
    /\ nat' = [nat EXCEPT ![i] = h]
    /\ UNCHANGED <<doc, rm, attached, aaInit, coord, reg, clickL, item, raf, mut, focus>>

\* the DOM after container node c has left its parent: the transitions that were
\* running on panels no longer in the document are cancelled, and no transitionend
\* is delivered for them
Removed(W, c) ==
    [W EXCEPT !.att[c] = FALSE,
              !.item = [i \in Items |->
                          IF InDocA([W.att EXCEPT ![c] = FALSE], doc.i[i].cont) THEN @[i]
                          ELSE [@[i] EXCEPT !.running = FALSE]]]

\* container node c is removed from its parent; the observer's callback runs
\* with that one record
NodeRemoved(c) ==
    /\ attached[c]
    /\ mut = <<>>
    /\ Commit(ObserverCallback(Removed(World, c), RecordsOf("removed", c)))
    /\ UNCHANGED <<rm, nat, mut, focus>>

\* container node c is inserted at its parent position; the observer's callback
\* runs with that one record
NodeAdded(c) ==
    /\ ~attached[c]
    /\ mut = <<>>
    /\ Commit(ObserverCallback([World EXCEPT !.att[c] = TRUE], RecordsOf("added", c)))
    /\ UNCHANGED <<rm, nat, mut, focus>>

\* a script removes container node c; the record waits for the observer's callback
Detach(c) ==
    /\ attached[c]
    /\ Len(mut) < MaxBatch
    /\ attached' = [attached EXCEPT ![c] = FALSE]
    /\ item' = Removed(World, c).item
    /\ mut' = mut \o RecordsOf("removed", c)
    /\ UNCHANGED <<doc, rm, aaInit, coord, reg, clickL, raf, nat, focus>>

\* the same script inserts container node c at its parent position
Attach(c) ==
    /\ ~attached[c]
    /\ Len(mut) < MaxBatch
    /\ attached' = [attached EXCEPT ![c] = TRUE]
    /\ mut' = mut \o RecordsOf("added", c)
    /\ UNCHANGED <<doc, rm, aaInit, coord, reg, clickL, item, raf, nat, focus>>

\* the script has returned: the observer's callback runs with the queued records
Observe ==
    /\ mut # <<>>
    /\ Commit(ObserverCallback(World, mut))
    /\ mut' = <<>>
    /\ UNCHANGED <<rm, nat, focus>>

\* the user switches the reduced-motion preference
MotionChange ==
    /\ rm' = ~rm
    /\ UNCHANGED <<doc, attached, aaInit, coord, reg, clickL, item, raf, nat, mut, focus>>

Next ==
    \/ InitPass
    \/ \E t \in Items : Click(t)
    \/ \E t \in Items, key \in Keys : KeyDown(t, key)
    \/ Frame
    \/ \E i \in Items : TransitionEnd(i)
    \/ \E i \in Items : Timeout(i)
    \/ \E c \in Containers : Resize(c)
    \/ \E i \in Items, h \in 1..MaxH : Reflow(i, h)
    \/ \E c \in Containers : NodeRemoved(c)
    \/ \E c \in Containers : NodeAdded(c)
    \/ MotionChange

\* one accordion with one item
DocOne(duration, contentFade, itemDuration, openDefault) ==
    [c |-> <<MkCont(0, No, duration, contentFade)>>,
     i |-> <<MkItem(1, Null, openDefault, itemDuration)>>]

\* single accordions: duration 0.4 s or 0, content fade on or off, closed or open by default
SingleDocs ==
    {DocOne(S04, Yes, Null, No), DocOne(S04, No, Null, No),
     DocOne(S04, Yes, S0, No), DocOne(S04, No, S0, No),
     DocOne(S04, Yes, Null, Yes)}

Init == \E D \in SingleDocs : InitWith(D, FALSE)

Spec == Init /\ [][Next]_vars

(* ------------------------------------------------------------------ *)
(* Vocabulary of the properties                                       *)
(* ------------------------------------------------------------------ *)

\* item i has been wired by a Coordinator that is registered for its container
Hydrated(i) ==
    /\ reg[doc.i[i].cont] # 0
    /\ doc.i[i].hasToggle /\ doc.i[i].hasContent

\* the defaults of the Coordinator registered for the container of item i
RegisteredDefaults(i) == coord[doc.i[i].cont][reg[doc.i[i].cont]].defaults

\* no callback of an open or close of item i is outstanding
Quiet(i) ==
    /\ \A n \in 1..Len(raf) : raf[n].i # i
    /\ item[i].cs = <<>>
    /\ ~item[i].running

\* the DOM state of a closed item that no animation has left a trace on
Pristine(it) ==
    /\ ~it.isOpen /\ it.hidden /\ it.aria = "false"
    /\ it.mh \in {MhUnset, MhPx(0)}
    /\ it.chOp = "" /\ it.chTf = TfUnset

\* the DOM end state of an open
OpenEnd(it) ==
    it.isOpen /\ it.aria = "true" /\ ~it.hidden /\ it.mh = MhNone

\* the DOM end state of a close
ClosedEnd(it) ==
    /\ ~it.isOpen /\ it.aria = "false" /\ it.hidden
    /\ it.mh = MhUnset /\ it.tr = TrUnset /\ it.ov = ""

(* ------------------------------------------------------------------ *)
(* C6                                                                 *)
(* ------------------------------------------------------------------ *)

\* C6 (as claimed): a hydrated item that is closed with every callback of its opens
\* and closes run is in its pre-open DOM state: panel hidden, no is-open,
\* aria-expanded false, no inline max-height, opacity or transform left by the
\* animation on the panel or its children.
C6_RoundTrip ==
    \A i \in Items : (Hydrated(i) /\ ~item[i].isOpen /\ Quiet(i)) => Pristine(item[i])

(* ------------------------------------------------------------------ *)
(* C7                                                                 *)
(* ------------------------------------------------------------------ *)

\* opens and closes of a single accordion while the motion preference changes
NextMotion ==
    \/ InitPass
    \/ \E t \in Items : Click(t)
    \/ Frame
    \/ \E i \in Items : TransitionEnd(i)
    \/ \E i \in Items : Timeout(i)
    \/ MotionChange

SpecMotion == Init /\ [][NextMotion]_vars

\* C7 (as claimed): while the reduced-motion preference is active, _openItem and
\* _closeItem of any hydrated item have put the item in its open, respectively
\* closed, DOM end state when they return.
C7_EndStateAtReturn ==
    rm => \A i \in Items : Hydrated(i) =>
            /\ OpenEnd(OpenItem(World, RegisteredDefaults(i), i, FALSE).item[i])
            /\ ClosedEnd(CloseItem(World, RegisteredDefaults(i), i).item[i])

\* C7 (amended): as C7, except that _closeItem of an item whose close is already
\* in flight returns without touching the item.
C7_EndStateUnlessClosing ==
    rm => \A i \in Items : Hydrated(i) =>
            /\ OpenEnd(OpenItem(World, RegisteredDefaults(i), i, FALSE).item[i])
            /\ IF item[i].closing
               THEN CloseItem(World, RegisteredDefaults(i), i) = World
               ELSE ClosedEnd(CloseItem(World, RegisteredDefaults(i), i).item[i])

\* an item with a configured duration of 0.4 s that was opened under reduced
\* motion: it is in the open end state while the frame callback of that open,
\* which carries the overridden duration 0, is still pending
C7_Witness ==
    rm /\ \E i \in Items :
            /\ Hydrated(i) /\ OpenEnd(item[i]) /\ ~item[i].closing
            /\ ~dataBool(doc.i[i].openDefault, FALSE)
            /\ ItemSettings(RegisteredDefaults(i), i).duration = Num(400)
            /\ \E n \in 1..Len(raf) :
                 raf[n].i = i /\ raf[n].k = "open" /\ raf[n].s.duration = Num(0)

(* ------------------------------------------------------------------ *)
(* C8                                                                 *)
(* ------------------------------------------------------------------ *)

\* C8 (as claimed): a step that opens an item instantly (the panel's max-height
\* is 'none' when the open returns) registers no animation-frame callback and no
\* transitionend listener, and a released panel of an open item keeps max-height
\* 'none' in every step that does not begin a close of the item.
C8_InstantOpenStaysReleased ==
    [][\A i \in Items :
         /\ (~item[i].isOpen /\ item'[i].isOpen /\ item'[i].mh = MhNone)
               => (raf' = raf /\ item'[i].nOnEnd = item[i].nOnEnd)
         /\ (item[i].isOpen /\ ~item[i].closing /\ item[i].mh = MhNone
               /\ item'[i].mh # MhNone)
               => (item'[i].closing \/ ~item'[i].isOpen)]_vars

(* ------------------------------------------------------------------ *)
(* Link groups across two accordions                                  *)
(* ------------------------------------------------------------------ *)

\* pairs of linked accordions: plain, the second one auto-closing, the first one
\* with duration 0, the first item open by default
LinkDocs ==
    {DocPair(No, S04, No), DocPair(Yes, S04, No), DocPair(No, S0, No),
     DocPair(No, S04, Yes)}

InitLink == \E D \in LinkDocs : InitWith(D, FALSE)

NextLink ==
    \/ InitPass
    \/ \E t \in Items : Click(t)
    \/ \E t \in Items, key \in Keys : KeyDown(t, key)
    \/ Frame
    \/ \E i \in Items : TransitionEnd(i)
    \/ \E i \in Items : Timeout(i)

SpecLink == InitLink /\ [][NextLink]_vars

\* the completion callbacks of item k and of the items after it: the end of a running
\* max-height transition, else the fallback timeouts of its close sequences
RECURSIVE TimeoutsOf(_, _)
TimeoutsOf(W, k) ==
    IF W.item[k].cs = <<>> THEN W ELSE TimeoutsOf(FallbackTimeout(W, k, 1), k)

RECURSIVE EndFrom(_, _)
EndFrom(W, k) ==
    IF k > Cardinality(Items) THEN W
    ELSE LET W1 == IF W.item[k].running THEN TransitionEndMaxHeight(W, k) ELSE W
         IN  EndFrom(TimeoutsOf(W1, k), k + 1)

\* every callback that is scheduled in W has run: the frame, then the completions
Settle(W) == EndFrom(AnimationFrame(W), 1)

\* x and y are hydrated items of two accordions in the document, in one link group
LinkedAcross(x, y) ==
    /\ x # y /\ Hydrated(x) /\ Hydrated(y)
    /\ doc.i[x].cont # doc.i[y].cont
    /\ InDoc(doc.i[x].cont) /\ InDoc(doc.i[y].cont)
    /\ doc.i[x].linkGroup.p /\ doc.i[x].linkGroup.s # <<>>
    /\ doc.i[x].linkGroup = doc.i[y].linkGroup

\* the Item states of the data model, as the DOM shows them: the is-open marker
\* with aria-expanded and the panel's hidden flag, and no open or close in flight
StateOpen(W, i) ==
    /\ W.item[i].isOpen /\ W.item[i].aria = "true" /\ ~W.item[i].hidden
    /\ ~W.item[i].closing /\ W.item[i].cs = <<>> /\ ~W.item[i].running
    /\ \A n \in 1..Len(W.raf) : W.raf[n].i # i

StateClosed(W, i) ==
    /\ ~W.item[i].isOpen /\ W.item[i].aria = "false" /\ W.item[i].hidden
    /\ ~W.item[i].closing /\ W.item[i].cs = <<>> /\ ~W.item[i].running
    /\ \A n \in 1..Len(W.raf) : W.raf[n].i # i

\* C1: for hydrated items x and y of different accordions in one link group, a click
\* on x's toggle while both are Closed makes both is-open in that turn, with the
\* frame callback of either open registered, and both are Open once the callbacks
\* have run; a click on x while both are Open starts the close of both and both
\* are Closed once the callbacks have run.
C1_LinkedToggle ==
    \A x, y \in Items : LinkedAcross(x, y) =>
        LET W1 == DispatchClick(World, ToggleOf(x))
            W2 == Settle(W1)
        IN  /\ (StateClosed(World, x) /\ StateClosed(World, y)) =>
                 /\ W1.item[x].isOpen /\ W1.item[y].isOpen
                 /\ \A z \in {x, y} : \E n \in 1..Len(W1.raf) :
                       W1.raf[n].i = z /\ W1.raf[n].k = "open"
                 /\ StateOpen(W2, x) /\ StateOpen(W2, y)
            /\ (StateOpen(World, x) /\ StateOpen(World, y)) =>
                 /\ \A z \in {x, y} : W1.item[z].closing \/ StateClosed(W1, z)
                 /\ StateClosed(W2, x) /\ StateClosed(W2, y)

\* both items of a link group across two accordions have just been opened by one
\* click: both are is-open and the animated frame callbacks of both are pending
C1_Witness ==
    \E x, y \in Items :
        /\ LinkedAcross(x, y)
        /\ item[x].isOpen /\ item[y].isOpen
        /\ \A z \in {x, y} : \E n \in 1..Len(raf) :
              raf[n].i = z /\ raf[n].k = "open" /\ Positive(raf[n].dur)

\* C2 (as claimed): whenever no open or close sequence is in flight, all hydrated
\* items of the document that share a non-empty link group have the same open state.
C2_GroupInSync ==
    (\A i \in Items : Quiet(i) /\ ~item[i].closing) =>
        \A x, y \in Items :
            (/\ Hydrated(x) /\ Hydrated(y)
             /\ InDoc(doc.i[x].cont) /\ InDoc(doc.i[y].cont)
             /\ doc.i[x].linkGroup.p /\ doc.i[x].linkGroup.s # <<>>
             /\ doc.i[x].linkGroup = doc.i[y].linkGroup)
            => (item[x].isOpen <=> item[y].isOpen)

(* ------------------------------------------------------------------ *)
(* Auto-close and link groups                                         *)
(* ------------------------------------------------------------------ *)

\* an auto-closing accordion with items A, B and C, where B and C are in link group
\* g; A and B are open by default
DocTriple ==
    [c |-> <<MkCont(0, Yes, S04, Yes)>>,
     i |-> <<MkItem(1, Null, Yes, Null), MkItem(1, G, Yes, Null), MkItem(1, G, No, Null)>>]

\* an accordion with item X in link group g, and an auto-closing accordion with
\* item Y in link group g and item A in none
DocAcross(openDefault) ==
    [c |-> <<MkCont(0, No, S04, Yes), MkCont(0, Yes, S04, Yes)>>,
     i |-> <<MkItem(1, G, No, Null), MkItem(2, G, No, Null),
             MkItem(2, Null, openDefault, Null)>>]

AutoDocs == {DocAcross(No), DocAcross(Yes)}

InitAuto == \E D \in AutoDocs : InitWith(D, FALSE)

NextAuto ==
    \/ InitPass
    \/ \E t \in Items : Click(t)
    \/ Frame
    \/ \E i \in Items : TransitionEnd(i)
    \/ \E i \in Items : Timeout(i)

SpecAuto == InitAuto /\ [][NextAuto]_vars

\* clicks in the auto-closing accordion with items A, B and C
InitTriple == InitWith(DocTriple, FALSE)

NextTriple ==
    \/ InitPass
    \/ \E t \in Items : Click(t)
    \/ Frame
    \/ \E i \in Items : TransitionEnd(i)
    \/ \E i \in Items : Timeout(i)

SpecTriple == InitTriple /\ [][NextTriple]_vars

\* the registered Coordinator of the container of item i closes siblings on open
AutoClosing(i) ==
    /\ Hydrated(i)
    /\ coord[doc.i[i].cont][reg[doc.i[i].cont]].autoClose

\* item j is in the non-empty link group of item i
GroupMate(j, i) ==
    /\ doc.i[i].linkGroup.p /\ doc.i[i].linkGroup.s # <<>>
    /\ doc.i[j].linkGroup = doc.i[i].linkGroup

\* a, b and c are the items A, B and C of C3
SameGroupException(a, b, c) ==
    /\ a # b /\ a # c /\ b # c
    /\ doc.i[a].cont = doc.i[c].cont /\ doc.i[b].cont = doc.i[c].cont
    /\ AutoClosing(c) /\ InDoc(doc.i[c].cont)
    /\ GroupMate(b, c) /\ ~GroupMate(a, c)

\* C3: in an auto-closing accordion with items A, B, C where B and C share a link
\* group and A does not, a click on C's toggle while C is closed and A and B are
\* open opens C, starts no close on B and starts the close of A; once the
\* callbacks have run A is Closed and B and C are Open.
C3_GroupMateSpared ==
    \A a, b, c \in Items :
        (/\ SameGroupException(a, b, c)
         /\ item[a].isOpen /\ ~item[a].closing
         /\ item[b].isOpen /\ ~item[b].closing
         /\ ~item[c].isOpen /\ ~item[c].closing)
        => LET W1 == DispatchClick(World, ToggleOf(c))
               W2 == Settle(W1)
           IN  /\ W1.item[c].isOpen
               /\ W1.item[b] = item[b]
               /\ W1.item[a].closing \/ StateClosed(W1, a)
               /\ StateClosed(W2, a) /\ StateOpen(W2, b) /\ StateOpen(W2, c)

\* the click on C has just been handled: C is opening, its group-mate B is open
\* with no close started, and the close of A is in flight
C3_Witness ==
    \E a, b, c \in Items :
        /\ SameGroupException(a, b, c)
        /\ item[c].isOpen /\ item[c].nOnEnd > 0
        /\ \E n \in 1..Len(raf) : raf[n].i = c /\ raf[n].k = "open"
        /\ item[b].isOpen /\ ~item[b].closing /\ item[b].cs = <<>>
        /\ item[a].closing /\ item[a].cs # <<>>

\* C4 (as claimed): in an auto-closing accordion, a step of a click, a key press or
\* a link-group propagation in which a hydrated item becomes is-open starts a close
\* on every other item of the accordion that is open and is not in the opened
\* item's link group.
C4_AutoCloseOnEveryOpen ==
    [][\A i, j \in Items :
         (/\ AutoClosing(i) /\ InDoc(doc.i[i].cont)
          /\ ~item[i].isOpen /\ item'[i].isOpen
          /\ j # i /\ doc.i[j].cont = doc.i[i].cont
          /\ item[j].isOpen /\ ~GroupMate(j, i))
         => (item'[j].closing \/ ~item'[j].isOpen)]_vars

(* ------------------------------------------------------------------ *)
(* Hydration and teardown of container nodes                          *)
(* ------------------------------------------------------------------ *)

\* an accordion whose item holds a second accordion in its panel
DocNested ==
    [c |-> <<MkCont(0, No, S04, Yes), MkCont(1, No, S04, Yes)>>,
     i |-> <<MkItem(1, Null, No, Null), MkItem(2, Null, No, Null)>>]

LifeDocs == {DocOne(S04, Yes, Null, No), DocOne(S04, Yes, Null, Yes), DocNested}

\* a container node is in the markup of the page or is inserted later by a script
InitLife ==
    \E D \in LifeDocs : \E att \in [DOMAIN D.c -> BOOLEAN] : InitAt(D, FALSE, att)

NextLife ==
    \/ InitPass
    \/ \E c \in Containers : NodeRemoved(c)
    \/ \E c \in Containers : NodeAdded(c)
    \/ \E t \in Items : Click(t)
    \/ \E t \in Items, key \in Keys : KeyDown(t, key)
    \/ Frame
    \/ \E i \in Items : TransitionEnd(i)
    \/ \E i \in Items : Timeout(i)

SpecLife == InitLife /\ [][NextLife]_vars

\* the number of pending frame callbacks of kind k for item i
RafCount(q, i, k) == Cardinality({n \in 1..Len(q) : q[n].i = i /\ q[n].k = k})

Destroyed(c, g) == g \in 1..Len(coord[c]) /\ ~coord[c][g].kd

\* C10: after destroy() of a Coordinator of container c, a click on the toggle of any
\* of its items and a key pressed on any of them change no item, and the registry
\* resolves neither the container nor its items to an instance.
C10_TeardownClean ==
    \A c \in Containers : \A g \in 1..Len(coord[c]) : Destroyed(c, g) =>
        /\ reg[c] = 0
        /\ \A i \in ItemsOf(c) :
              /\ InstanceForItem(World, i)[2] = 0
              /\ doc.i[i].hasToggle =>
                    /\ DispatchClick(World, ToggleOf(i)).item = item
                    /\ \A key \in Keys :
                          DispatchKeydown(World, ToggleOf(i), key).W.item = item

\* a Coordinator that had opened an item has been destroyed: the item is still
\* is-open, its toggle has no click listener and the container is not registered
C10_Witness ==
    \E c \in Containers :
        /\ Destroyed(c, 1) /\ reg[c] = 0
        /\ \E i \in ItemsOf(c) : item[i].isOpen /\ clickL[ToggleOf(i)] = <<>>

(* ------------------------------------------------------------------ *)
(* C11, C12: teardown and the registry                                *)
(* ------------------------------------------------------------------ *)

\* C11: destroy() called again on a destroyed Coordinator changes nothing: the click
\* listeners of every toggle, the keydown and resize observers of every
\* Coordinator and the whole registry, the entries of the other Coordinators
\* included, are as the first call left them.
C11_DestroyIdempotent ==
    \A c \in Containers : \A g \in 1..Len(coord[c]) :
        Destroyed(c, g) => Destroy(World, c, g) = World

\* a Coordinator has been destroyed while the Coordinator of another container is
\* registered and has its click listener attached
C11_Witness ==
    \E c, d \in Containers :
        /\ c # d /\ Destroyed(c, 1)
        /\ reg[d] # 0 /\ coord[d][reg[d]].kd
        /\ \E i \in ItemsOf(d) : clickL[i] # <<>>

\* documents whose container nodes a script removes and inserts, several in one turn
BatchDocs == {DocNested, DocOne(S04, Yes, Null, Yes)}

InitBatch ==
    \E D \in BatchDocs : \E att \in [DOMAIN D.c -> BOOLEAN] : InitAt(D, FALSE, att)

NextBatch ==
    \/ InitPass
    \/ \E c \in Containers : Detach(c)
    \/ \E c \in Containers : Attach(c)
    \/ Observe
    \/ \E t \in Items : Click(t)
    \/ Frame
    \/ \E i \in Items : TransitionEnd(i)
    \/ \E i \in Items : Timeout(i)

SpecBatch == InitBatch /\ [][NextBatch]_vars

\* container node c has a Coordinator that was constructed and not destroyed
Live(c) == \E g \in 1..Len(coord[c]) : coord[c][g].kd

KeyDocs == {DocTriple, DocNested}

InitKeys == \E D \in KeyDocs : InitWith(D, FALSE)

NextKeys ==
    \/ InitPass
    \/ \E t \in Items : Click(t)
    \/ \E t \in Items, key \in Keys : KeyDown(t, key)
    \/ Frame
    \/ \E i \in Items : TransitionEnd(i)
    \/ \E i \in Items : Timeout(i)

SpecKeys == InitKeys /\ [][NextKeys]_vars

Max(S) == CHOOSE x \in S : \A y \in S : x >= y

\* the toggles of the items of container c; items are numbered in document order
OwnToggles(c) == {i \in ItemsOf(c) : doc.i[i].hasToggle}

\* the toggle after t in document order, the first one after the last
ToggleAfter(c, t) ==
    IF \E u \in OwnToggles(c) : u > t
    THEN Min({u \in OwnToggles(c) : u > t}) ELSE Min(OwnToggles(c))

\* the toggle before t in document order, the last one before the first
ToggleBefore(c, t) ==
    IF \E u \in OwnToggles(c) : u < t
    THEN Max({u \in OwnToggles(c) : u < t}) ELSE Max(OwnToggles(c))

\* the event as it is dispatched: no default prevented, no focus() called
Undisturbed == [W |-> World, focus |-> 0, prevented |-> FALSE]

\* the keydown on toggle t called focus() on toggle u, prevented the default and
\* changed nothing else
Moved(E, u) == E.focus = u /\ E.prevented /\ E.W = World

\* C13: in a hydrated container in the document, a keydown on one of its toggles
\* moves the focus with ArrowDown to the next toggle in document order (from the
\* last to the first), with ArrowUp to the previous one (from the first to the
\* last), with Home to the first and with End to the last, and leaves every item
\* as it is.
C13_FocusMoves ==
    \A c \in Containers : (reg[c] # 0 /\ InDoc(c)) =>
        \A t \in OwnToggles(c) :
            /\ Moved(DispatchKeydown(World, t, "ArrowDown"), ToggleAfter(c, t))
            /\ Moved(DispatchKeydown(World, t, "ArrowUp"), ToggleBefore(c, t))
            /\ Moved(DispatchKeydown(World, t, "Home"), Min(OwnToggles(c)))
            /\ Moved(DispatchKeydown(World, t, "End"), Max(OwnToggles(c)))

\* in a hydrated container with three toggles the focus is on the first one while
\* the items are in different states: one open, one closed
C13_Witness ==
    \E c \in Containers :
        /\ reg[c] # 0 /\ InDoc(c) /\ Cardinality(OwnToggles(c)) = 3
        /\ focus = Min(OwnToggles(c))
        /\ \E i, j \in ItemsOf(c) : item[i].isOpen /\ ~item[j].isOpen /\ item[j].hidden

\* C14: the keydown handler of a Coordinator returns without preventing the default,
\* calling focus() or changing an item when the key is none of ArrowDown, ArrowUp,
\* Home, End, Enter, Space, and when the target is not a toggle of an item of its
\* own container (a toggle of a nested or of another container, or no toggle at
\* all); a key that is none of the six is left alone by the whole dispatch.
C14_KeyboardFrame ==
    /\ \A c \in Containers : reg[c] # 0 =>
          \A target \in Items \cup {0} : \A key \in Keys :
              (key \notin {"ArrowDown", "ArrowUp", "Home", "End", "Enter", " "}
                 \/ target \notin OwnToggles(c))
              => HandleKeyboard(Undisturbed, c, target, key) = Undisturbed
    /\ \A t \in Items : doc.i[t].hasToggle =>
          DispatchKeydown(World, t, "Escape") = Undisturbed

\* the focus is on the toggle of an accordion nested in the open panel of a
\* hydrated outer accordion, both registered: keys pressed there reach the outer
\* container's handler
C14_Witness ==
    \E c, d \in Containers :
        /\ reg[c] # 0 /\ reg[d] # 0 /\ ContUnder(d, c)
        /\ focus \in OwnToggles(d)
        /\ item[doc.c[d].parent].isOpen /\ ~item[doc.c[d].parent].hidden

\* C15: Enter or Space on a toggle of a hydrated container in the document is one
\* call of _toggle for its item, the same as one click on the toggle: the default
\* is prevented, and for a closed item the result is not that of two clicks.
C15_ActivationIsOneClick ==
    \A t \in Items : (Hydrated(t) /\ InDoc(doc.i[t].cont)) =>
        \A key \in ActivationKeys :
            /\ DispatchKeydown(World, t, key).W = DispatchClick(World, t)
            /\ DispatchKeydown(World, t, key).W
                  = Toggle(World, doc.i[t].cont, reg[doc.i[t].cont], t)
            /\ DispatchKeydown(World, t, key).prevented
            /\ ~item[t].isOpen =>
                  DispatchKeydown(World, t, key).W
                     # DispatchClick(DispatchClick(World, t), t)

\* a key was pressed on the toggle of an item of the auto-closing accordion that is
\* in a link group: the item is opening with one frame callback, its group mate
\* in the other accordion is open too, and the close of its sibling is in flight
C15_Witness ==
    \E t, y, a \in Items :
        /\ focus = t /\ AutoClosing(t)
        /\ item[t].isOpen /\ ~item[t].closing /\ RafCount(raf, t, "open") = 1
        /\ y # t /\ GroupMate(y, t) /\ item[y].isOpen
        /\ a # t /\ doc.i[a].cont = doc.i[t].cont /\ item[a].closing

(* ------------------------------------------------------------------ *)
(* C16: the double-close guard                                        *)
(* ------------------------------------------------------------------ *)

\* the frame callbacks in q that belong to item i, in order
RafOf(q, i) == SelectSeq(q, LAMBDA cb : cb.i = i)

\* the handler that led from the current state to W left item i, its listeners and
\* timers and its frame callbacks as they were
Untouched(W, i) == W.item[i] = item[i] /\ RafOf(W.raf, i) = RafOf(raf, i)

\* C16: while a close of a hydrated item is in flight, _closeItem for it, called
\* directly or through _closeItemGlobal, changes nothing at all; a click on any
\* toggle (its own, a sibling's whose open auto-closes it, a group mate's whose
\* close is propagated to it) leaves the item's styles, listeners, timers and
\* frame callbacks as they are; and the close in flight ends with the item Closed,
\* with or without such a click.
C16_DoubleCloseNoOp ==
    \A i \in Items : (Hydrated(i) /\ item[i].closing) =>
        /\ CloseItem(World, RegisteredDefaults(i), i) = World
        /\ CloseItemGlobal(World, RegisteredDefaults(i), i) = World
        /\ StateClosed(Settle(World), i)
        /\ \A u \in Items : doc.i[u].hasToggle =>
              /\ Untouched(DispatchClick(World, u), i)
              /\ StateClosed(Settle(DispatchClick(World, u)), i)

\* in an auto-closing accordion an item has its one close in flight while a sibling
\* that is not its group mate has just been opened
C16_Witness ==
    \E i, u \in Items :
        /\ Hydrated(i) /\ AutoClosing(i)
        /\ item[i].closing /\ Len(item[i].cs) = 1 /\ item[i].nDbg = 1
        /\ u # i /\ doc.i[u].cont = doc.i[i].cont /\ ~GroupMate(i, u)
        /\ item[u].isOpen /\ ~item[u].closing /\ RafCount(raf, u, "open") = 1

(* ------------------------------------------------------------------ *)
(* C17, C18: completion                                               *)
(* ------------------------------------------------------------------ *)

\* a single accordion, which a script may remove and insert again, whose animation
\* frames and timers the browser always runs in the end, while a transitionend
\* event may never be delivered
NextFair ==
    \/ InitPass
    \/ \E c \in Containers : NodeRemoved(c)
    \/ \E c \in Containers : NodeAdded(c)
    \/ \E t \in Items : Click(t)
    \/ Frame
    \/ \E i \in Items : TransitionEnd(i)
    \/ \E i \in Items : Timeout(i)

SpecFair == Init /\ [][NextFair]_vars /\ WF_vars(Frame) /\ WF_vars(Timeout(1))

\* C17: a close with a positive duration that is in flight on the item leads to the
\* item being Closed (no is-open, aria-expanded false, panel hidden, inline
\* max-height, transition and overflow cleared, guard released), whether or not a
\* transitionend event is ever delivered.
C17_CloseCompletes ==
    (item[1].closing /\ item[1].cs # <<>>)
        ~> (ClosedEnd(item[1]) /\ ~item[1].closing /\ item[1].cs = <<>>)

\* a close with duration 0.4 s has just started: the guard is set, the fallback
\* timer is armed and the frame callback has not run, so no transition has begun
C17_Witness ==
    /\ Hydrated(1) /\ item[1].closing
    /\ Len(item[1].cs) = 1 /\ item[1].cs[1].timer
    /\ RafCount(raf, 1, "close") = 1 /\ ~item[1].running

\* C18 (as claimed): an open with a positive duration that is in flight on the item
\* (the transitionend listener attached, the height not yet released) leads to the
\* height being released (max-height none) or to the open being superseded by a
\* close, whether or not a transitionend event is ever delivered.
C18_OpenReleases ==
    (item[1].isOpen /\ ~item[1].closing /\ item[1].nOnEnd > 0)
        ~> (item[1].mh = MhNone \/ item[1].closing \/ ~item[1].isOpen)

(* ------------------------------------------------------------------ *)
(* C19, C20: late callbacks                                           *)
(* ------------------------------------------------------------------ *)

\* the inline max-height and transition of the panel and the inline opacity,
\* transform and transition of its children
Styles(it) == <<it.mh, it.tr, it.chOp, it.chTf, it.chTr>>

\* what the DOM shows of an item: the open marker, ARIA, the hidden flag, the
\* classes and inline styles, the double-close guard
Dom(it) ==
    <<it.isOpen, it.aria, it.hidden, it.noFade, it.ov, it.closing, Styles(it)>>

\* the close of item i has completed: cleanup() has run and nothing reopened it
CloseCompleted(i) ==
    /\ Hydrated(i)
    /\ ~item[i].isOpen /\ ~item[i].closing /\ item[i].hidden /\ item[i].aria = "false"
    /\ item[i].cs = <<>>

\* C19 (as claimed): when the close of an item has completed, the callbacks that
\* were scheduled for it before and fire late (the frame callbacks of the open
\* before and of the close itself, a transitionend of its panel) leave the inline
\* max-height and transition of the panel and the inline opacity, transform and
\* transition of its children as cleanup() left them.
C19_StaleCallbacksIgnored ==
    \A i \in Items : CloseCompleted(i) =>
        /\ RafOf(raf, i) # <<>> =>
              Styles(AnimationFrame(World).item[i]) = Styles(item[i])
        /\ item[i].running =>
              Styles(TransitionEndMaxHeight(World, i).item[i]) = Styles(item[i])

\* C20 (as claimed): after destroy() of the Coordinator of a container, the
\* callbacks still scheduled for its items (the frame callbacks of an open or a
\* close, the transitionend handlers, the fallback timer of a close) change
\* nothing the DOM shows of the item when they fire.
C20_TeardownSilencesCallbacks ==
    \A c \in Containers : \A g \in 1..Len(coord[c]) : Destroyed(c, g) =>
        \A i \in ItemsOf(c) :
            /\ RafOf(raf, i) # <<>> =>
                  Dom(AnimationFrame(World).item[i]) = Dom(item[i])
            /\ item[i].running =>
                  Dom(TransitionEndMaxHeight(World, i).item[i]) = Dom(item[i])
            /\ \A n \in 1..Len(item[i].cs) : item[i].cs[n].timer =>
                  Dom(FallbackTimeout(World, i, n).item[i]) = Dom(item[i])

(* ------------------------------------------------------------------ *)
(* C21                                                                *)
(* ------------------------------------------------------------------ *)

\* item i has a toggle and a content panel and a Coordinator has wired it
Wired(i) ==
    /\ aaInit[doc.i[i].cont] /\ coord[doc.i[i].cont] # <<>>
    /\ doc.i[i].hasToggle /\ doc.i[i].hasContent

\* C21 (as claimed): in every reachable state, for every item with a toggle and a
\* content panel that has been hydrated, aria-expanded of the toggle is "true"
\* exactly when the item has is-open, and the panel is hidden exactly when the
\* item has not, including while an open or a close is in flight and after late
\* callbacks.
C21_AriaMatchesOpen ==
    \A i \in Items : Wired(i) =>
        /\ (item[i].aria = "true") <=> item[i].isOpen
        /\ item[i].hidden <=> ~item[i].isOpen

(* ------------------------------------------------------------------ *)
(* Items with a missing element                                       *)
(* ------------------------------------------------------------------ *)

\* an auto-closing accordion whose first item has lost one of its two elements and
\* whose second item is complete; both are in link group g
DocLame(part) ==
    [c |-> <<MkCont(0, Yes, S04, Yes)>>,
     i |-> <<[MkItem(1, G, Yes, Null) EXCEPT ![part] = FALSE, !.itemId = Attr(<<"a">>)],
             [MkItem(1, G, No, Null) EXCEPT !.itemId = Attr(<<"b">>)]>>]

\* an accordion whose item has lost its toggle and holds, in its panel, a second
\* accordion with a complete item
DocHollow(openDefault) ==
    [c |-> <<MkCont(0, No, S04, Yes), MkCont(1, No, S04, Yes)>>,
     i |-> <<[MkItem(1, Null, openDefault, Null) EXCEPT !.hasToggle = FALSE,
                                                        !.itemId = Attr(<<"a">>)],
             [MkItem(2, Null, No, Null) EXCEPT !.itemId = Attr(<<"b">>)]>>]

MissingDocs ==
    {DocLame("hasToggle"), DocLame("hasContent"), DocHollow(Yes), DocHollow(No)}

InitMissing == \E D \in MissingDocs : InitWith(D, FALSE)

NextMissing ==
    \/ InitPass
    \/ \E t \in Items : Click(t)
    \/ Frame
    \/ \E i \in Items : TransitionEnd(i)
    \/ \E i \in Items : Timeout(i)
    \/ \E c \in Containers : Resize(c)

SpecMissing == InitMissing /\ [][NextMissing]_vars

\* item i has no toggle of its own or no content panel of its own
Lacking(i) == ~doc.i[i].hasToggle \/ ~doc.i[i].hasContent

\* a click listener of some Coordinator toggles item i
Listened(i) ==
    \E t \in Items : \E n \in 1..Len(clickL[t]) : clickL[t][n].i = i

(* ------------------------------------------------------------------ *)
(* C25                                                                *)
(* ------------------------------------------------------------------ *)

\* C25 (as claimed): an item that lacks a toggle or a content panel is skipped at
\* hydration (no click listener recorded, no state set), every
\* later open or close request on it changes nothing, and every sibling with both
\* elements is hydrated and opens on a click.
C25_MissingElementSkipped ==
    \A i \in Items : (Lacking(i) /\ coord[doc.i[i].cont] # <<>>) =>
        /\ item[i] = RawItem
        /\ ~Listened(i)
        /\ \A c \in Containers : \A g \in 1..Len(coord[c]) :
              /\ OpenItem(World, coord[c][g].defaults, i, FALSE) = World
              /\ CloseItem(World, coord[c][g].defaults, i) = World
        /\ \A j \in ItemsOf(doc.i[i].cont) : ~Lacking(j) =>
              /\ Listened(j)
              /\ ~item[j].isOpen => DispatchClick(World, j).item[j].isOpen

(* ------------------------------------------------------------------ *)
(* Settings of containers and items                                   *)
(* ------------------------------------------------------------------ *)

NumericFields == {"duration", "fadeDuration", "slideDistance", "stagger"}

Fields ==
    {"duration", "easing", "contentFade", "fadeDuration", "slideDistance", "stagger"}

\* values a container declares for a field, Null: the attribute is absent
ContainerChoice(f) ==
    CASE f = "duration" -> {Null, S04}
      [] f = "easing" -> {Null, Attr(<<"ease-in">>)}
      [] f = "contentFade" -> {Null, Yes, No}
      [] f = "fadeDuration" -> {Null, S03}
      [] f = "slideDistance" -> {Null, S10}
      [] f = "stagger" -> {Null, Attr(<<"4">>)}

\* values an item declares for a field, among them an explicit 0 and an explicit false
ItemChoice(f) ==
    CASE f = "duration" -> {Null, S0, Attr(<<"1">>)}
      [] f = "easing" -> {Null, Attr(<<"linear">>)}
      [] f = "contentFade" -> {Null, Yes, No}
      [] f = "fadeDuration" -> {Null, S0, Attr(<<"0", ".", "4">>)}
      [] f = "slideDistance" -> {Null, S0, Attr(<<"4">>)}
      [] f = "stagger" -> {Null, S0, Attr(<<"4">>)}

\* one accordion with one item, where one field is declared, or not, by the
\* container and by the item
SettingDocs ==
    UNION {{[DocOne(S04, Yes, Null, No) EXCEPT !.c[1][f] = cv, !.i[1][f] = iv] :
               cv \in ContainerChoice(f), iv \in ItemChoice(f)} : f \in Fields}

InitSettings == \E D \in SettingDocs : InitWith(D, FALSE)

NextSettings ==
    \/ InitPass
    \/ \E t \in Items : Click(t)
    \/ Frame
    \/ \E i \in Items : TransitionEnd(i)
    \/ \E i \in Items : Timeout(i)
    \/ MotionChange

SpecSettings == InitSettings /\ [][NextSettings]_vars

\* the hard-coded fallbacks
Fallback ==
    [duration |-> Num(400), easing |-> <<"ease">>, contentFade |-> TRUE,
     fadeDuration |-> Num(300), slideDistance |-> Num(10000), stagger |-> Num(0)]

\* the value a present attribute raw gives to field f
ValueOf(f, raw) ==
    IF f \in NumericFields THEN parseFloat(raw.s)
    ELSE IF f = "easing" THEN raw.s
    ELSE raw.s = <<"true">>

\* the value the container c declares for field f, or the fallback
ContainerLevel(c, f) ==
    IF doc.c[c][f].p THEN ValueOf(f, doc.c[c][f]) ELSE Fallback[f]

\* item first, then container, then fallback
Resolved(i, f) ==
    IF doc.i[i][f].p THEN ValueOf(f, doc.i[i][f])
    ELSE ContainerLevel(doc.i[i].cont, f)

\* the settings the open of item i requested now by coord[c][g] hands to its
\* animation-frame callback
OpenSettings(c, g, i) ==
    LET q == OpenItem(World, coord[c][g].defaults, i, FALSE).raf
    IN  q[Len(q)].s

(* ------------------------------------------------------------------ *)
(* C22                                                                *)
(* ------------------------------------------------------------------ *)

C23_ReducedMotionOverride ==
    \A c \in Containers : \A g \in 1..Len(coord[c]) : \A i \in ItemsOf(c) :
        \A s \in {GetSettings(coord[c][g].defaults, i), OpenSettings(c, g, i)} :
            /\ \A f \in {"easing", "contentFade", "slideDistance"} : s[f] = Resolved(i, f)
            /\ \A f \in {"duration", "fadeDuration", "stagger"} :
                  s[f] = IF rm THEN Num(0) ELSE Resolved(i, f)

\* under reduced motion an item whose resolved duration, fade duration or stagger
\* is positive has been opened: the open ran with the three at 0 and released the
\* height at once
C23_Witness ==
    \E i \in Items :
        /\ rm /\ item[i].isOpen /\ item[i].mh = MhNone
        /\ Positive(Resolved(i, "duration"))
        /\ Positive(Resolved(i, "stagger"))
        /\ \E n \in 1..Len(raf) :
              /\ raf[n].i = i /\ raf[n].k = "open"
              /\ raf[n].s.duration = Num(0) /\ raf[n].s.stagger = Num(0)
              /\ raf[n].s.fadeDuration = Num(0)
              /\ raf[n].s.slideDistance = Resolved(i, "slideDistance")

(* ------------------------------------------------------------------ *)
(* C24                                                                *)
(* ------------------------------------------------------------------ *)

\* the declared range of each numeric field, in thousandths of s, s, px and ms
RangeMax ==
    [duration |-> 1000, fadeDuration |-> 800, slideDistance |-> 50000,
     stagger |-> 200000]

\* C24 (as claimed): whatever the container and the item declare, the resolved
\* duration lies in [0, 1] s, fadeDuration in [0, 0.8] s, slideDistance in
\* [0, 50] px and stagger in [0, 200] ms: a value out of its range, too large or
\* negative, never reaches the animation.  (A value that is no number is left to
\* C9.)
C24_ResolvedInRange ==
    \A c \in Containers : \A g \in 1..Len(coord[c]) : \A i \in ItemsOf(c) :
        \A f \in NumericFields :
            LET n == GetSettings(coord[c][g].defaults, i)[f]
            IN  ~n.nan => (0 <= n.v /\ n.v <= RangeMax[f])

(* ------------------------------------------------------------------ *)
(* C26                                                                *)
(* ------------------------------------------------------------------ *)

\* an open of item i is in flight: its frame callback is pending or its
\* transition-end listener is still attached
Opening(i) ==
    \/ \E n \in 1..Len(raf) : raf[n].i = i /\ raf[n].k = "open"
    \/ item[i].nOnEnd > 0

\* the frame callback of an open of item i is pending
OpenPending(i) ==
    \E n \in 1..Len(raf) : raf[n].i = i /\ raf[n].k = "open"

\* C26 (as claimed): a resize notification of a container leaves the max-height of
\* every item that is closed, that has an open in flight (before or after its frame
\* callback) or that has a close in flight as it is, and an open whose frame
\* callback would start the height transition still starts it after the resize, so
\* that its height is released later.
C26_ResizeFrame ==
    \A c \in Containers : (\E g \in 1..Len(coord[c]) : coord[c][g].ro) =>
        \A i \in Items :
            /\ (~item[i].isOpen \/ Opening(i) \/ item[i].closing)
                 => RecalcOpenHeights(World, c).item[i].mh = item[i].mh
            /\ (OpenPending(i) /\ AnimationFrame(World).item[i].running)
                 => AnimationFrame(RecalcOpenHeights(World, c)).item[i].running

(* ------------------------------------------------------------------ *)
(* C27                                                                *)
(* ------------------------------------------------------------------ *)

\* values of data-open-default: absent, "true", "false", and two that are not
\* exactly "true"
OpenDefaults == {Null, Yes, No, Attr(<<"TRUE">>), Attr(<<"1">>)}

\* single accordions, animated or not, the nested pair and the linked pair, with
\* the values of data-open-default on the first item
HydrateDocs ==
    {DocOne(d, Yes, Null, od) : d \in {S04, S0}, od \in OpenDefaults}
    \cup {[DocNested EXCEPT !.i[1].openDefault = od] : od \in OpenDefaults}
    \cup {DocPair(No, S04, od) : od \in {Yes, No}}

InitHydrate ==
    \E D \in HydrateDocs : \E att \in [DOMAIN D.c -> BOOLEAN] : InitAt(D, FALSE, att)

NextHydrate ==
    \/ InitPass
    \/ \E c \in Containers : NodeRemoved(c)
    \/ \E c \in Containers : NodeAdded(c)
    \/ \E t \in Items : Click(t)
    \/ Frame
    \/ \E i \in Items : TransitionEnd(i)
    \/ \E i \in Items : Timeout(i)

SpecHydrate == InitHydrate /\ [][NextHydrate]_vars

\* the frame callbacks of opens of item i in the queue q carry duration 0
InstantFrames(q, i) ==
    \A n \in 1..Len(q) : (q[n].i = i /\ q[n].k = "open") => q[n].dur = Num(0)

\* C27: when a container is hydrated, each of its items with a toggle and a panel
\* is, when hydration returns, open (is-open, aria-expanded true, not hidden) if
\* its data-open-default is exactly "true" and closed (aria-expanded false,
\* hidden) otherwise; the open state is reached in that turn with duration 0
\* whatever duration is configured: the height is released, no transition-end
\* listener is added and the frame callback carries duration 0.
C27_InitialState ==
    \A c \in Containers : (~aaInit[c] /\ InDoc(c)) =>
        \A i \in ItemsOf(c) : ~Lacking(i) =>
            LET it == Hydrate(World, c).item[i]
            IN  IF doc.i[i].openDefault = Yes
                THEN /\ it.isOpen /\ it.aria = "true" /\ ~it.hidden
                     /\ it.mh = MhNone /\ it.nOnEnd = item[i].nOnEnd
                     /\ InstantFrames(Hydrate(World, c).raf, i) \/ Opening(i)
                ELSE it.aria = "false" /\ it.hidden

\* hydration has just returned for an accordion with duration 0.4 s: its item with
\* data-open-default "true" is open with the height released, the frame callback
\* of the instant open still pending
C27_Witness ==
    \E i \in Items :
        /\ aaInit[doc.i[i].cont] /\ reg[doc.i[i].cont] # 0
        /\ doc.i[i].openDefault = Yes
        /\ Positive(RegisteredDefaults(i).duration)
        /\ item[i].isOpen /\ item[i].aria = "true" /\ ~item[i].hidden
        /\ item[i].mh = MhNone /\ item[i].nOnEnd = 0
        /\ \E n \in 1..Len(raf) : raf[n].i = i /\ raf[n].dur = Num(0)

(* ------------------------------------------------------------------ *)
(* C28                                                                *)
(* ------------------------------------------------------------------ *)

\* the completion handling of a close of item i is outstanding: a transition-end
\* handler or a fallback timer of a close sequence, or its pending frame callback
CloseOutstanding(i) ==
    \/ item[i].cs # <<>>
    \/ \E n \in 1..Len(raf) : raf[n].i = i /\ raf[n].k = "close"

\* the number of frame callbacks pending for item i in the queue q
RECURSIVE FramesOf(_, _)
FramesOf(q, i) ==
    IF q = <<>> THEN 0
    ELSE (IF Head(q).i = i THEN 1 ELSE 0) + FramesOf(Tail(q), i)

\* C28 (as claimed): in every reachable state an item has at most one open or
\* close sequence with completion handling outstanding (a transition-end listener,
\* a fallback timer or a pending frame callback): never an open's together with a
\* close's, never those of two opens or of two closes.
C28_OneInFlight ==
    \A i \in Items :
        /\ ~(Opening(i) /\ CloseOutstanding(i))
        /\ item[i].nOnEnd <= 1 /\ Len(item[i].cs) <= 1
        /\ FramesOf(raf, i) <= 1

(* ------------------------------------------------------------------ *)
(* C29                                                                *)
(* ------------------------------------------------------------------ *)

\* a close of item i can start: it is wired, in the document, open and not closing
Closable(i) ==
    /\ Wired(i) /\ InDoc(doc.i[i].cont) /\ reg[doc.i[i].cont] # 0
    /\ item[i].isOpen /\ ~item[i].closing

\* C29 (as claimed): in every close of an item with a content panel the steps are,
\* in this order: overflow is constrained, a layout is computed, the rendered height
\* is measured, max-height is locked at the measured value, a layout is computed,
\* and only the next animation frame starts the transition to 0; the height is
\* never measured before the close has constrained overflow and a layout has been
\* computed.
C29_CloseMeasurementOrder ==
    \A i \in Items : Closable(i) =>
        LET s == GetSettings(RegisteredDefaults(i), i)
            st == RunCloseOps(World, i, s, CloseOps, CloseStart(item[i]))
        IN  /\ st.constrained
            /\ ~item[i].running => st.h = RenderedHeight(World, i)
            /\ st.it.mh = MhPx(st.h) /\ st.mhFlushed
            /\ Positive(s.duration) =>
                  LET W1 == CloseItem(World, RegisteredDefaults(i), i)
                  IN  /\ W1.item[i].mh = MhPx(st.h)
                      /\ W1.raf # <<>> /\ W1.raf[Len(W1.raf)].k = "close"
                      /\ W1.raf[Len(W1.raf)].i = i

(* ------------------------------------------------------------------ *)
(* C30                                                                *)
(* ------------------------------------------------------------------ *)

\* the linked pair, the first accordion with duration 0 and the second with 0.4 s
OwnerDocs ==
    {DocPair(No, S0, No), DocPair(No, S0, Yes), DocPair(Yes, S0, No)}

InitOwner == \E D \in OwnerDocs : InitWith(D, FALSE)

NextOwner ==
    \/ InitPass
    \/ \E c \in Containers : NodeRemoved(c)
    \/ \E c \in Containers : NodeAdded(c)
    \/ \E t \in Items : Click(t)
    \/ Frame
    \/ \E i \in Items : TransitionEnd(i)
    \/ \E i \in Items : Timeout(i)

SpecOwner == InitOwner /\ [][NextOwner]_vars

\* the profile defaults item j is to be opened or closed with when a Coordinator
\* with defaults d propagates: those of the Coordinator registered for the
\* container of j, d when none is registered
OwnerDefaults(j, d) ==
    IF reg[doc.i[j].cont] # 0 THEN RegisteredDefaults(j) ELSE d

\* W1 is the state after a propagation for the group of item i with target state t
\* by a Coordinator with defaults d: the items in the document with that group,
\* but i, whose open state differs from t have been opened or closed with their
\* owner's defaults; nothing has happened to any other item
Propagated(W1, d, i, t) ==
    \A j \in Items :
        IF /\ j # i /\ InDoc(doc.i[j].cont)
           /\ doc.i[j].linkGroup = doc.i[i].linkGroup
           /\ item[j].isOpen # t
        THEN LET W2 == IF t THEN OpenItem(World, OwnerDefaults(j, d), j, FALSE)
                       ELSE CloseItem(World, OwnerDefaults(j, d), j)
             IN  W1.item[j] = W2.item[j] /\ RafOf(W1.raf, j) = RafOf(W2.raf, j)
        ELSE W1.item[j] = item[j] /\ RafOf(W1.raf, j) = RafOf(raf, j)

\* C30: a link-group propagation for group g with target state t, by any
\* Coordinator, acts on every item in the document whose data-link-group is g
\* except the triggering item, and only on those whose open state differs from t;
\* each is opened or closed by the Coordinator registered for its own container,
\* with that container's default profile, and by the propagating Coordinator when
\* none is registered for it.
C30_LinkTargetsAndOwner ==
    \A c \in Containers : \A g \in 1..Len(coord[c]) : \A i \in ItemsOf(c) :
        \A t \in BOOLEAN :
            (doc.i[i].linkGroup.p /\ doc.i[i].linkGroup.s # <<>>) =>
                Propagated(SyncLinkedGroup(World, coord[c][g].defaults,
                                           doc.i[i].linkGroup.s, i, t),
                           coord[c][g].defaults, i, t)

\* a click in the accordion with duration 0 has opened its item at once and the
\* linked item of the accordion with 0.4 s is opening with its own container's
\* duration, the transition-end listener attached
C30_Witness ==
    \E i, j \in Items :
        /\ i # j /\ GroupMate(j, i)
        /\ reg[doc.i[i].cont] # 0 /\ reg[doc.i[j].cont] # 0
        /\ RegisteredDefaults(i).duration = Num(0)
        /\ RegisteredDefaults(j).duration = Num(400)
        /\ item[i].isOpen /\ item[i].mh = MhNone /\ item[i].nOnEnd = 0
        /\ item[j].isOpen /\ item[j].nOnEnd > 0
        /\ \E n \in 1..Len(raf) :
              raf[n].i = j /\ raf[n].k = "open" /\ raf[n].dur = Num(400)

(* ------------------------------------------------------------------ *)
(* Two accordions that differ in data-allow-multiple                  *)
(* ------------------------------------------------------------------ *)

\* two accordions with two items each, alike but for data-allow-multiple: "true"
\* on the first, "false" on the second
DocTwin(autoClose) ==
    [c |-> <<MkCont(0, autoClose, S04, Yes),
             [MkCont(0, autoClose, S04, Yes) EXCEPT !.allowMultiple = No]>>,
     i |-> <<MkItem(1, Null, No, Null), MkItem(1, Null, Yes, Null),
             MkItem(2, Null, No, Null), MkItem(2, Null, Yes, Null)>>]

\* the item of the second accordion at the place of item k of the first
Twin(k) == k + 2

InitTwin == \E D \in {DocTwin(No), DocTwin(Yes)} : InitWith(D, FALSE)

\* the toggle of item t and that of its twin are clicked
ClickTwin(t) ==
    /\ mut = <<>>
    /\ Commit(DispatchClick(DispatchClick(World, t), Twin(t)))
    /\ UNCHANGED <<rm, nat, mut, focus>>

\* the max-height transitions of the panel of item i and of its twin end
TransitionEndTwin(i) ==
    /\ mut = <<>>
    /\ item[i].running /\ item[Twin(i)].running
    /\ Commit(TransitionEndMaxHeight(TransitionEndMaxHeight(World, i), Twin(i)))
    /\ UNCHANGED <<rm, nat, mut, focus>>

\* the fallback timeouts of the closes of item i and of its twin fire
TimeoutTwin(i) ==
    /\ mut = <<>>
    /\ item[i].cs # <<>> /\ item[i].cs[1].timer
    /\ item[Twin(i)].cs # <<>> /\ item[Twin(i)].cs[1].timer
    /\ Commit(FallbackTimeout(FallbackTimeout(World, i, 1), Twin(i), 1))
    /\ UNCHANGED <<rm, nat, mut, focus>>

\* the ResizeObservers of both accordions report a size change
ResizeTwin ==
    /\ mut = <<>>
    /\ \A c \in Containers : \E g \in 1..Len(coord[c]) : coord[c][g].ro
    /\ Commit(RecalcOpenHeights(RecalcOpenHeights(World, 1), 2))
    /\ UNCHANGED <<rm, nat, mut, focus>>

NextTwin ==
    \/ InitPass
    \/ \E t \in 1..2 : ClickTwin(t)
    \/ Frame
    \/ \E i \in 1..2 : TransitionEndTwin(i)
    \/ \E i \in 1..2 : TimeoutTwin(i)
    \/ ResizeTwin

SpecTwin == InitTwin /\ [][NextTwin]_vars

\* the state of an item without the names and ids of its own nodes
Anonymous(it) ==
    [it EXCEPT !.cs = [n \in DOMAIN @ |-> [@[n] EXCEPT !.toggle = 0]],
               !.toggleId = NoId, !.controls = NoId,
               !.contentId = NoId, !.labelledby = NoId]

\* the frame callbacks pending for item i, without the item's name
AnonymousFrames(q, i) ==
    [n \in DOMAIN RafOf(q, i) |-> [RafOf(q, i)[n] EXCEPT !.i = 0]]

\* the mutable state with data-allow-multiple read the other way by every Coordinator
Flipped(W) ==
    [W EXCEPT !.coord = [c \in DOMAIN @ |->
                           [g \in DOMAIN @[c] |->
                              [@[c][g] EXCEPT !.allowMultiple = ~@]]]]

(* ------------------------------------------------------------------ *)
(* C31                                                                *)
(* ------------------------------------------------------------------ *)

\* C31: two accordions that differ only in data-allow-multiple and receive the same
\* clicks, resizes and callbacks are in the same item states after every event;
\* and a key press or click handled with the flag read the other way leaves the
\* same item states and frame callbacks.
C31_AllowMultipleInert ==
    /\ \A k \in 1..2 :
          /\ Anonymous(item[k]) = Anonymous(item[Twin(k)])
          /\ AnonymousFrames(raf, k) = AnonymousFrames(raf, Twin(k))
    /\ \A t \in Items :
          /\ DispatchClick(Flipped(World), t).item = DispatchClick(World, t).item
          /\ \A key \in Keys :
                /\ DispatchKeydown(Flipped(World), t, key).W.item
                     = DispatchKeydown(World, t, key).W.item
                /\ DispatchKeydown(Flipped(World), t, key).W.raf
                     = DispatchKeydown(World, t, key).W.raf

\* in the accordion with data-allow-multiple "false" and no auto-close both items
\* are open at once, the second one opened by a click
C31_Witness ==
    /\ doc.c[2].allowMultiple = No /\ doc.c[2].autoClose = No
    /\ reg[2] # 0 /\ ~coord[2][reg[2]].allowMultiple
    /\ item[3].isOpen /\ item[4].isOpen
    /\ ~item[3].closing /\ ~item[4].closing
    /\ item[3].nOnEnd > 0

(* ------------------------------------------------------------------ *)
(* C32                                                                *)
(* ------------------------------------------------------------------ *)

\* item i carries a non-empty data-item-id
Identified(i) == doc.i[i].itemId.p /\ doc.i[i].itemId.s # <<>>

\* C32 (as claimed): for every hydrated item with a data-item-id id, the panel's id is
\* id-content, the toggle's id is id-toggle, the toggle's aria-controls is the
\* panel's id and the panel's aria-labelledby is the toggle's id, in every state
\* (so no open or close changes them).
C32_AriaLinkage ==
    \A i \in Items :
        Listened(i) /\ Identified(i) =>
            /\ item[i].contentId = <<doc.i[i].itemId.s, "-content">>
            /\ item[ToggleOf(i)].toggleId = <<doc.i[i].itemId.s, "-toggle">>
            /\ item[ToggleOf(i)].controls = item[i].contentId
            /\ item[i].labelledby = item[ToggleOf(i)].toggleId

(* ------------------------------------------------------------------ *)
(* C33                                                                *)
(* ------------------------------------------------------------------ *)

\* what statement op of the open st found: the item's state, aria-expanded, whether
\* the height had been measured and whether the layout was up to date
Found(st, op) == st.log[CHOOSE n \in DOMAIN st.log : st.log[n].op = op]

\* the open of item i, instant or not, run on the current state
OpenRun(i, instant) ==
    RunOpenOps(i, GetSettings(RegisteredDefaults(i), i),
               IF instant THEN Num(0) ELSE GetSettings(RegisteredDefaults(i), i).duration,
               GetSettings(RegisteredDefaults(i), i).contentFade /\ ~instant,
               OpenOps, OpenStart(World))

\* the order of the statements of the open st of item i with settings s
OpenOrdered(st, i, s, fade) ==
    /\ Found(st, "hidden").it.isOpen /\ Found(st, "hidden").aria = "true"
    /\ ~Found(st, "children").it.hidden
    /\ IF fade
       THEN /\ Found(st, "maxHeightNone").it.chOp = "0"
            /\ ~s.slideDistance.nan =>
                   Found(st, "maxHeightNone").it.chTf = TfY(s.slideDistance.v)
       ELSE /\ Found(st, "maxHeightNone").it.chOp = item[i].chOp
            /\ Found(st, "maxHeightNone").it.chTf = item[i].chTf
    /\ ~Found(st, "maxHeightNone").measured
    /\ Found(st, "offsetHeight").it.mh = MhNone /\ ~Found(st, "offsetHeight").measured
    /\ st.target = Measure(st.W, i)
    /\ Found(st, "maxHeightZero").measured
    /\ Found(st, "reflow").it.mh = MhPx(0)
    /\ Found(st, "requestAnimationFrame").it.mh = MhPx(0)
    /\ Found(st, "requestAnimationFrame").flushed
    /\ Found(st, "requestAnimationFrame").it.tr = TrNone

\* C33: in every open the item is marked is-open and aria-expanded true, then the
\* panel is un-hidden, then (content fade on, not instant) the children are put at
\* opacity 0 and translateY(slideDistance), then max-height is set to none before
\* the height is measured, then max-height is set to 0 and a layout is forced; the
\* handler leaves the transition off and a frame callback registered, and that
\* callback applies the height measured in this same open.
C33_OpenStepOrder ==
    \A i \in Items : \A instant \in BOOLEAN :
        Wired(i) /\ reg[doc.i[i].cont] # 0 =>
            /\ OpenOrdered(OpenRun(i, instant), i,
                           GetSettings(RegisteredDefaults(i), i),
                           GetSettings(RegisteredDefaults(i), i).contentFade /\ ~instant)
            /\ OpenRun(i, instant).W = OpenItem(World, RegisteredDefaults(i), i, instant)
            /\ LET W1 == OpenItem(World, RegisteredDefaults(i), i, instant)
               IN  /\ W1.item[i].tr = TrNone /\ ~W1.item[i].running
                   /\ Len(W1.raf) = Len(raf) + 1
                   /\ W1.raf[Len(W1.raf)].k = "open" /\ W1.raf[Len(W1.raf)].i = i
                   /\ OpenFrame(W1.item[i], W1.raf[Len(W1.raf)]).mh
                        = MhPx(Measure([World EXCEPT !.item[i].hidden = FALSE], i))

\* an animated open with content fade has run on a closed item and waits for its
\* frame: the children are pre-positioned, max-height is 0 and the callback holds
\* the panel's full height
C33_Witness ==
    \E i \in Items :
        /\ item[i].isOpen /\ item[i].aria = "true" /\ ~item[i].hidden
        /\ item[i].chOp = "0" /\ item[i].mh = MhPx(0) /\ item[i].tr = TrNone
        /\ item[i].nOnEnd > 0
        /\ RafOf(raf, i) # <<>>
        /\ RafOf(raf, i)[Len(RafOf(raf, i))].k = "open"
        /\ RafOf(raf, i)[Len(RafOf(raf, i))].target = nat[i]
        /\ nat[i] > 0

(* ------------------------------------------------------------------ *)
(* C34                                                                *)
(* ------------------------------------------------------------------ *)

\* C34 (as claimed): while the open of an item waits for its transition end, a
\* max-height transition-end event whose target is another item's panel (a nested
\* accordion's) does not release the item's height constraint nor detach the
\* open's listener.
C34_OwnPanelOnly ==
    \A i \in Items : \A j \in Items \ {i} :
        item[i].nOnEnd > 0 /\ item[i].running /\ item[j].running =>
            /\ TransitionEndMaxHeight(World, j).item[i].mh = item[i].mh
            /\ TransitionEndMaxHeight(World, j).item[i].nOnEnd = item[i].nOnEnd

(* ------------------------------------------------------------------ *)
(* C35                                                                *)
(* ------------------------------------------------------------------ *)

\* the close of item i has completed in W: cleanup has run and neither its
\* transition-end handler nor its timer is left
CompletedIn(W, i) ==
    /\ W.item[i].cs = <<>>
    /\ ~W.item[i].closing /\ ~W.item[i].isOpen /\ W.item[i].hidden
    /\ W.item[i].mh = MhUnset /\ W.item[i].tr = TrUnset

\* C35: an item has at most one animated close sequence outstanding, with both its
\* transition-end handler and its fallback timer armed and the item still closing;
\* whichever of the two is delivered runs cleanup and leaves neither armed, so the
\* other cannot run it again; an item that is open and not closing has no handler
\* or timer of an earlier close left.
C35_CloseCompletesOnce ==
    \A i \in Items :
        /\ Len(item[i].cs) <= 1
        /\ item[i].cs # <<>> =>
              /\ item[i].closing /\ item[i].isOpen
              /\ item[i].cs[1].teh /\ item[i].cs[1].timer
              /\ CompletedIn(TransitionEndMaxHeight(World, i), i)
              /\ CompletedIn(FallbackTimeout(World, i, 1), i)
        /\ item[i].isOpen /\ ~item[i].closing => item[i].cs = <<>>

\* an item whose earlier close was completed by the fallback timer (its capture
\* listener is still there) has been opened again and is open, not closing
C35_Witness ==
    \E i \in Items :
        /\ item[i].nDbg > 0 /\ item[i].cs = <<>>
        /\ item[i].isOpen /\ ~item[i].closing /\ item[i].aria = "true"

(* ------------------------------------------------------------------ *)
(* C36                                                                *)
(* ------------------------------------------------------------------ *)

\* C36: while the close of a hydrated item is in flight the item keeps is-open; a
\* click on any toggle (its own or a group mate's), Enter or Space on any toggle,
\* and a link-group request to open its group leave the item, its listeners,
\* timers and frame callbacks as they are (no open starts, the close is not
\* restarted); and after such a click the close ends with the item Closed.
C36_NoOpenDuringClose ==
    \A i \in Items : (Hydrated(i) /\ item[i].closing) =>
        /\ item[i].isOpen
        /\ \A u \in Items :
              /\ Untouched(DispatchClick(World, u), i)
              /\ StateClosed(Settle(DispatchClick(World, u)), i)
              /\ \A key \in ActivationKeys :
                    Untouched(DispatchKeydown(World, u, key).W, i)
              /\ (u # i /\ doc.i[i].linkGroup.p /\ doc.i[i].linkGroup.s # <<>>) =>
                    Untouched(SyncLinkedGroup(World, RegisteredDefaults(i),
                                              doc.i[i].linkGroup.s, u, TRUE), i)

\* the close of an item of a link group is in flight, with its frame callback or
\* its transition pending, while its group mate in the other accordion is closing
\* too: a click on either toggle is a request on a closing item
C36_Witness ==
    \E i, u \in Items :
        /\ LinkedAcross(i, u)
        /\ item[i].closing /\ item[i].isOpen /\ item[i].cs # <<>>
        /\ item[u].closing
        /\ clickL[i] # <<>> /\ clickL[u] # <<>>

(* ------------------------------------------------------------------ *)
(* Link groups within and across accordions                           *)
(* ------------------------------------------------------------------ *)

InitGroups == \E D \in {DocTriple} \cup AutoDocs : InitWith(D, FALSE)

NextGroups ==
    \/ InitPass
    \/ \E t \in Items : Click(t)
    \/ Frame
    \/ \E i \in Items : TransitionEnd(i)
    \/ \E i \in Items : Timeout(i)

SpecGroups == InitGroups /\ [][NextGroups]_vars

\* the frame callbacks of kind k pending for item i in q
CountFrames(q, i, k) == Len(SelectSeq(q, LAMBDA cb : cb.i = i /\ cb.k = k))

\* the open sequences started on item k between the current state and W
NewOpens(W, k) == CountFrames(W.raf, k, "open") - CountFrames(raf, k, "open")

\* the close sequences started on item k between the current state and W: animated
\* ones, and instant ones, which leave the item closed at once
NewCloses(W, k) ==
    (CountFrames(W.raf, k, "close") - CountFrames(raf, k, "close"))
      + (IF item[k].isOpen /\ ~item[k].closing /\ ~W.item[k].isOpen THEN 1 ELSE 0)

\* item k is a group mate of item t
Mate(k, t) ==
    /\ k # t
    /\ doc.i[t].linkGroup.p /\ doc.i[t].linkGroup.s # <<>>
    /\ doc.i[k].linkGroup = doc.i[t].linkGroup

\* W is the state after the click on the toggle of item t
OneHop(W, t) ==
    /\ \A k \in Items :
          /\ NewOpens(W, k) >= 0 /\ NewCloses(W, k) >= 0
          /\ NewOpens(W, k) + NewCloses(W, k) <= 1
          /\ (~Mate(k, t) /\ doc.i[k].cont # doc.i[t].cont) => Untouched(W, k)
          /\ (Mate(k, t) /\ NewOpens(W, k) = 1) => ~item[t].isOpen /\ ~item[k].isOpen
          /\ (Mate(k, t) /\ NewCloses(W, k) = 1) => item[t].isOpen /\ item[k].isOpen
    /\ IF item[t].isOpen
       THEN NewOpens(W, t) = 0 /\ NewCloses(W, t) = (IF item[t].closing THEN 0 ELSE 1)
       ELSE NewOpens(W, t) = 1 /\ NewCloses(W, t) = 0 /\ W.item[t].isOpen

(* ------------------------------------------------------------------ *)
(* C37                                                                *)
(* ------------------------------------------------------------------ *)

\* C37: the handling of one click starts at most one open or close sequence on
\* each item of the document; the clicked item gets its one toggle and nothing
\* back; a group mate is opened only from closed and closed only from open, in the
\* direction of the clicked item; and an item that is neither a group mate nor in
\* the clicked item's accordion is not touched, so a propagated open or close
\* triggers nothing further.
C37_OneHop ==
    \A t \in Items :
        (Hydrated(t) /\ InDoc(doc.i[t].cont) /\ clickL[t] # <<>>) =>
            OneHop(DispatchClick(World, t), t)

\* in an auto-closing accordion two members of one group have been opened by one
\* click (neither frame has run) while the third item's close was started by it
C37_Witness ==
    \E a, b, k \in Items :
        /\ a # b /\ Mate(a, b) /\ doc.i[a].cont = doc.i[b].cont
        /\ doc.i[k].cont = doc.i[a].cont /\ ~Mate(k, a) /\ k # a /\ k # b
        /\ CountFrames(raf, a, "open") = 1 /\ CountFrames(raf, b, "open") = 1
        /\ item[a].nOnEnd > 0 /\ item[b].nOnEnd > 0
        /\ CountFrames(raf, k, "close") = 1 /\ item[k].closing
        /\ CountFrames(raf, a, "close") = 0 /\ CountFrames(raf, b, "close") = 0

(* ------------------------------------------------------------------ *)
(* C38                                                                *)
(* ------------------------------------------------------------------ *)

\* C38 (as claimed): whenever the observer has processed every queued record,
\* every container node that is in the document and has been hydrated once has a
\* registered Coordinator that is not destroyed, also after the node was removed
\* and inserted again or moved.
C38_ContainersLive ==
    mut = <<>> =>
        \A c \in Containers :
            (InDoc(c) /\ aaInit[c]) => (reg[c] # 0 /\ Live(c))

(* ------------------------------------------------------------------ *)
(* C39                                                                *)
(* ------------------------------------------------------------------ *)

\* item i is at rest: Open with the height released, or Closed, and no frame
\* callback, transition or timer is pending for it
AtRest(i) ==
    /\ \/ StateOpen(World, i) /\ item[i].mh = MhNone
       \/ StateClosed(World, i)
    /\ RafOf(raf, i) = <<>> /\ ~item[i].running /\ item[i].cs = <<>>

\* C39 (as claimed): whenever a hydrated item is at rest, no transition-end listener
\* of an earlier open or close (onEnd, transitionEndHandler, debugHandler) and no
\* fallback timer is left on its panel.
C39_NoListenerOutlives ==
    \A i \in Items :
        (Hydrated(i) /\ AtRest(i)) =>
            /\ item[i].nOnEnd = 0
            /\ item[i].nDbg = 0
            /\ item[i].cs = <<>>

(* ------------------------------------------------------------------ *)
(* Attribute values                                                   *)
(* ------------------------------------------------------------------ *)

\* the characters attribute values are written with, and the values of up to
\* MaxLen characters
Chars == {"0", "4", ".", "-", "a"}
Values == UNION {[1..k -> Chars] : k \in 0..MaxLen}

\* one accordion with one item in which one numeric attribute, of the container or
\* of the item, has the value s
AttrDocs ==
    {[DocOne(S04, Yes, Null, No) EXCEPT !.c[1][f] = Attr(s)] :
        f \in NumericFields, s \in Values}
    \cup {[DocOne(S04, Yes, Null, No) EXCEPT !.i[1][f] = Attr(s)] :
        f \in NumericFields, s \in Values}

InitAttr == \E D \in AttrDocs : InitWith(D, FALSE)

NextAttr ==
    \/ InitPass
    \/ \E t \in Items : Click(t)
    \/ Frame
    \/ \E i \in Items : TransitionEnd(i)
    \/ \E i \in Items : Timeout(i)

SpecAttr == InitAttr /\ [][NextAttr]_vars

\* the attribute raw is present and holds no number
Malformed(raw) == raw.p /\ parseFloat(raw.s) = NaN

\* C9 (as claimed): a numeric setting whose attribute is present but holds no number
\* resolves to the fallback of the field, for the four numeric settings of a
\* Container (fallbacks 0.4, 0.3, 10 and 0) and for the overrides of an Item
\* (fallback: the Container's value), and no resolved numeric setting is NaN.
C9_MalformedFallsBack ==
    \A c \in Containers : \A g \in 1..Len(coord[c]) :
        LET d == coord[c][g].defaults
            fallback == [duration |-> Num(400), fadeDuration |-> Num(300),
                         slideDistance |-> Num(10000), stagger |-> Num(0)]
        IN  \A f \in NumericFields :
              /\ Malformed(doc.c[c][f]) => d[f] = fallback[f]
              /\ ~d[f].nan
              /\ \A i \in ItemsOf(c) :
                    /\ Malformed(doc.i[i][f]) => ItemSettings(d, i)[f] = d[f]
                    /\ ~ItemSettings(d, i)[f].nan

====
